---- MODULE Spec2Model ----
(***************************************************************************)
(* A model of rig_c_scp.CSCPConnection (src/rig_c_scp/c_scp_connection.py) *)
(* together with the Rig C SCP engine it drives.                           *)
(*                                                                         *)
(* The Python wrapper is translated from its source.  The C engine         *)
(* (rs.c, rs__*.c) is reached through the CFFI declarations of             *)
(* src/rig_c_scp/cffi_compile.py only; its behaviour is modelled from      *)
(* spec.md sections 4.3-4.5 and 4.7 (the definitions whose names start     *)
(* with "rs_", "lib_rs_" or "Eng"), and from the tests of src/py_tests     *)
(* where they show it (test_n_outstanding: what a failed fragment does to  *)
(* its operation).                                                         *)
(***************************************************************************)
EXTENDS Integers, Sequences, FiniteSets, TLC

(***************************************************************************)
(* Bounds of the model.                                                    *)
(***************************************************************************)
MaxCalls == 2      \* submission calls (send_scp/write/read/setters) per run
MaxLen   == 3      \* longest bulk read/write, in bytes
BulkLen  == 2      \* length of the bulk operations of the concurrent workloads
MaxParam == 2      \* largest scp_data_length / n_outstanding / n_tries
AddrSpace == 8     \* size of the (scaled down) 32-bit address space

Threads == {1, 2}                  \* user threads calling the API
Params  == 1..MaxParam
BaseAddr == 1                      \* the address bulk operations start at

Fill   == 0                        \* initial content of a caller's read buffer
\* What a byte of lib.malloc'ed memory holds when it is read before anything
\* was written to it: any byte.
HeapBytes == 0..255

None == "None"

MaxArgs == 3                       \* arg1, arg2, arg3 of an SCP packet
ArgNone == 0 - 1                   \* None in an argument of an SCPPacket
ReplyArgs == <<31, 32, 33>>        \* the arguments the machine replies with

\* Rig SCP error codes (cffi_compile.py: RS_EBAD_RC, RS_ETIMEOUT, RS_EFREE);
\* "OK" stands for error code 0.
RS_OK       == "OK"
RS_EBAD_RC  == "RS_EBAD_RC"
RS_ETIMEOUT == "RS_ETIMEOUT"
RS_EFREE    == "RS_EFREE"

\* Return codes of a response: SCPReturnCodes.ok or another (fatal) code.
RC_OK   == "ok"
RC_BAD  == "bad"
RC_BAD2 == "bad2"

VARIABLES
  \* ---- CSCPConnection (Python) ----
  closed,      \* self._closed
  queue,       \* self._queue: tasks waiting for the libuv thread
  conn,        \* self._conn: None or the handle of the engine
  dlen,        \* self._scp_data_length
  nout,        \* self._n_outstanding
  ntries,      \* self._n_tries
  cb_handles,  \* self._cb_handles: the operations with a registered _Callback
  wakeup,      \* uv_async_send pending on self._wakeup_handle
  pc,          \* position of the background (libuv) thread
  upc,         \* position of every user thread
  ret,         \* outcome of the latest submission call
  ncalls,      \* number of submission calls made
  lim,         \* the workload driven against the connection (never changes)
  ops,         \* the UserOps accepted so far, with their callbacks' history
  inlock,      \* what the libuv thread has run while holding self._lock
  attr,        \* the values the user gave scp_data_length and n_outstanding
  fn,          \* the entry _on_wakeup has popped and not yet run
  \* ---- Rig C SCP engine ----
  rs,          \* the engine: "live", "freeing" (rs_free called) or "none"
  eng,         \* parameters the engine was created with
  rq,          \* request queue
  slots,       \* outstanding table
  freeseq,     \* sequence allocator: the free list
  nfree,       \* number of rs_free calls that reached an engine
  badfree,     \* rs_free was called with self._conn = None
  \* ---- network and remote machine ----
  wire,        \* requests transmitted on the engine's socket
  mem          \* memory of the remote machine

pyvars  == <<closed, queue, conn, dlen, nout, ntries, cb_handles, wakeup, pc,
             upc, ret, ncalls, lim, attr, fn, inlock, ops>>
engvars == <<rs, eng, rq, slots, freeseq, nfree, badfree>>
netvars == <<wire, mem>>
vars    == <<pyvars, engvars, netvars>>

----------------------------------------------------------------------------
(***************************************************************************)
(* Helpers.                                                                *)
(***************************************************************************)
Min(a, b) == IF a < b THEN a ELSE b

Range(s) == {s[i] : i \in 1..Len(s)}

\* The bytes written by a bulk write of n bytes: byte j has value 20 + j.
WriteData(n) == [j \in 1..n |-> 20 + j]

\* Initial memory of the remote machine: every address holds its own value.
InitMem == [a \in 0..(AddrSpace - 1) |-> 10 + a]

NoReq == [op |-> 0, k |-> 0, seq |-> 0, tries |-> 0]

\* No entry popped.
NoTask == [t |-> "none", a |-> 0]

----------------------------------------------------------------------------
(***************************************************************************)
(* _Callback and the completion callbacks of CSCPConnection.               *)
(***************************************************************************)

\* The return value of _report_error: True iff an error was found.
_report_error(error, cmd_rc) == error # RS_OK \/ cmd_rc # RC_OK

\* The exception class _report_error hands to on_error.
error_class_generic(error, cmd_rc) == "SCPError"
ErrorClass(error, cmd_rc) ==
  IF error = RS_EBAD_RC THEN "FatalReturnCodeError"
  ELSE IF error = RS_ETIMEOUT THEN "TimeoutError"
  ELSE IF error # RS_OK THEN "SCPError"
  ELSE "FatalReturnCodeError"

\* ffi.memmove(callback.buffer, data_buf.base, min(data_buf.len, len(buffer)))
memmove_guard(o, succ) == o.kind = "read" /\ succ
\* data_buf = [len, base]: base maps the offsets (from 1) of the bytes
\* written so far to their values.
read_memmove_unbounded(buffer, data_buf) ==
  [j \in 1..(IF data_buf.len > Len(buffer) THEN data_buf.len
             ELSE Len(buffer)) |->
     IF j <= data_buf.len
     THEN (IF j \in DOMAIN data_buf.base THEN data_buf.base[j] ELSE Fill)
     ELSE buffer[j]]
read_memmove(buffer, data_buf) ==
  [j \in 1..Len(buffer) |->
     IF j <= Min(data_buf.len, Len(buffer)) THEN data_buf.base[j]
     ELSE buffer[j]]

\* _Callback(..., x=x, y=y, p=p, ...) and its packet property: the
\* description of the request an exception carries.
_Callback(o) == [x |-> o.x, y |-> o.y, p |-> o.p]

packet_as_sent(cb) ==
  [dest_x |-> cb.x % 256, dest_y |-> cb.y % 256, dest_cpu |-> cb.p]
packet(cb) == [dest_x |-> cb.x, dest_y |-> cb.y, dest_cpu |-> cb.p]

\* The SCPPacket _on_scp_cb hands to on_success: the arguments the engine
\* reports (n_args of them), the others None, and the data of the response.
SCPPacket_all_args(n_args, args, data) == [args |-> args, data |-> data]
SCPPacket(n_args, args, data) ==
  [args |-> [j \in 1..MaxArgs |-> IF n_args >= j THEN args[j] ELSE ArgNone],
   data |-> data]

\* _on_scp_cb / _on_write_cb / _on_read_cb applied to the operation record o:
\* the error is reported through on_error when present; otherwise on_success
\* is called when present, and only then is a read's data copied to the
\* caller's buffer.  o.dbuf is the malloc'ed data buffer: the bytes written
\* to it so far, by offset.  _on_read_cb then frees it (line 566): dbuf is
\* dropped after a failure, and after a success the field is kept as the
\* record of the bytes the callback found in it.
on_cb(o, error, cmd_rc) ==
  LET failed == _report_error(error, cmd_rc)
      isErr  == error # RS_OK \/ cmd_rc # RC_OK
      callE  == isErr /\ o.onE
      callS  == ~failed /\ o.onS
  IN [o EXCEPT !.st  = "done",
               !.out = IF isErr THEN (IF error # RS_OK THEN error ELSE RS_EBAD_RC)
                       ELSE RS_OK,
               !.nE  = IF callE THEN @ + 1 ELSE @,
               !.exc = IF callE THEN ErrorClass(error, cmd_rc) ELSE @,
               !.exc_dest = IF callE THEN packet(_Callback(o)) ELSE @,
               !.exc_rc = IF callE /\ ErrorClass(error, cmd_rc) = "FatalReturnCodeError"
                          THEN cmd_rc ELSE @,
               !.nS  = IF callS THEN @ + 1 ELSE @,
               !.pkt = IF callS /\ o.kind = "scp"
                       THEN SCPPacket(o.n_args, o.args, o.resp[1]) ELSE @,
               !.buf = IF memmove_guard(o, callS) THEN read_memmove(@, [len |-> o.len, base |-> o.dbuf])
                       ELSE @,
               !.dbuf = IF isErr THEN <<>> ELSE @]

----------------------------------------------------------------------------
(***************************************************************************)
(* Rig C SCP engine: fragmenter, request queue, outstanding table and      *)
(* sequence allocator (spec.md 4.3 - 4.5).                                 *)
(***************************************************************************)
NFrags(len, D) == (len + D - 1) \div D

\* The sub-requests of a bulk operation over [address, address + len).
FragmentsUnwrapped(address, len, D) ==
  [k \in 1..((len + D - 1) \div D) |->
     [addr |-> address + (k - 1) * D,
      size |-> Min(D, len - (k - 1) * D)]]
Fragments(address, len, D) ==
  [k \in 1..NFrags(len, D) |->
     [addr |-> (address + (k - 1) * D) % AddrSpace,
      size |-> Min(D, len - (k - 1) * D)]]

\* Copy data into buffer b from (0-based) offset off on, at most n bytes.
CopyAt(b, off, data, n) ==
  LET w == (off + 1)..(off + Min(n, Len(data)))
  IN [j \in DOMAIN b \cup w |-> IF j \in w THEN data[j - off] ELSE b[j]]

\* cmd_rc handed to the completion callback: the return code that came
\* with the first error of o when that is a bad return code.
CmdRc(o, error, rc) ==
  IF o.first_error = RS_OK /\ error = RS_EBAD_RC THEN rc ELSE o.first_rc

\* first_error of o after a fragment retired with `error`: set if not yet
\* set.
FirstError(o, error) == IF o.first_error = RS_OK THEN error ELSE o.first_error

\* The user-level completion, invoked once.
EngComplete(o) == on_cb(o, o.first_error, o.first_rc)

\* The data field of a response as the engine hands it on: cut to the
\* data_max_len the request was submitted with.
EngTruncate(data, data_max_len) ==
  SubSeq(data, 1, Min(Len(data), data_max_len))

\* The engine decodes a response carrying n arguments and the data field
\* `data` for o: it reports the arguments up to o.expected_args, and no more
\* than the response has.
EngDecode(o, n, data) ==
  [o EXCEPT !.reply  = [n |-> n, data |-> data],
            !.n_args = Min(o.expected_args, n),
            !.args   = [j \in 1..MaxArgs |->
                          IF j <= Min(o.expected_args, n) THEN ReplyArgs[j]
                          ELSE 0]]

\* Fragment k of operation o retires with `error` and return code rc; `data`
\* is the data field of the response (empty when there is none).
EngFragRetire(o, k, error, rc, data) ==
  [o EXCEPT
     !.remaining   = @ - 1,
     !.fres[k]     = error,
     !.frc[k]      = rc,
     !.first_rc    = CmdRc(o, error, rc),
     !.first_error = FirstError(o, error),
     !.resp[k]     = IF error = RS_OK THEN data ELSE @,
     !.dbuf        = IF error = RS_OK /\ o.kind = "read"
                     THEN CopyAt(@, (k - 1) * o.D, data, o.frags[k].size)
                     ELSE @]

\* The fragments of o that have not retired are cancelled: they will not
\* retire any more.
EngCancelFrags(o) ==
  [o EXCEPT !.remaining = 0,
            !.fres = [j \in DOMAIN @ |->
                        IF @[j] = "none" THEN "cancelled" ELSE @[j]]]

\* Fragment k of o retires.  A failure completes the operation at once and
\* cancels its other fragments (test_n_outstanding: with one slot and a
\* machine that does not answer, on_error is called after the timeout of the
\* first datagram and there is no second datagram); without a failure the
\* operation completes when no fragment is left.
EngFragDoneDeferred(o, k, error, rc, data) ==
  LET o1 == EngFragRetire(o, k, error, rc, data)
  IN IF o1.remaining = 0 THEN EngComplete(o1) ELSE o1
EngFragDone(o, k, error, rc, data) ==
  LET o1 == EngFragRetire(o, k, error, rc, data)
  IN IF o1.first_error # RS_OK THEN EngComplete(EngCancelFrags(o1))
     ELSE IF o1.remaining = 0 THEN EngComplete(o1)
     ELSE o1

\* The offsets of o's data buffer that _on_read_cb copies to the caller's
\* buffer although nothing has written them, when fragment k retiring with
\* `error`, rc and `data` completes o: an uninitialised read of malloc'ed
\* memory, which may give any bytes.
UninitRead(o, k, error, rc, data) ==
  LET o1 == EngFragRetire(o, k, error, rc, data)
  IN IF /\ o1.remaining = 0
        /\ memmove_guard(o1, ~_report_error(o1.first_error, o1.first_rc)
                               /\ o1.onS)
     THEN {j \in 1..Min(o1.len, Len(o1.buf)) : j \notin DOMAIN o1.dbuf}
     ELSE {}
Heaps(o, k, error, rc, data) == [UninitRead(o, k, error, rc, data) -> HeapBytes]
Malloced(o, heap) == [o EXCEPT !.dbuf = @ @@ heap]

\* Drain the request queue into free slots: allocate a sequence id, arm the
\* slot and transmit.  e = [ops, rq, slots, freeseq, wire].
EngDrainOne(e) ==
  LET free == {s \in DOMAIN e.slots : e.slots[s] = NoReq}
  IN IF e.rq = <<>> \/ free = {} THEN e
     ELSE LET s == CHOOSE x \in free : \A y \in free : x <= y
              r == Head(e.rq)
              q == Head(e.freeseq)
          IN [e EXCEPT
                 !.rq      = Tail(@),
                 !.slots[s] = [op |-> r.op, k |-> r.k, seq |-> q,
                               tries |-> eng.tries - 1],
                 !.freeseq = Tail(@),
                 !.wire    = @ \cup {[seq |-> q, op |-> r.op, k |-> r.k]},
                 !.ops[r.op].sent[r.k] = @ + 1]

RECURSIVE EngDrain(_)
EngDrain(e) ==
  LET free == {s \in DOMAIN e.slots : e.slots[s] = NoReq}
  IN IF e.rq = <<>> \/ free = {} THEN e
     ELSE LET s == CHOOSE x \in free : \A y \in free : x <= y
              r == Head(e.rq)
              q == Head(e.freeseq)
          IN EngDrain([e EXCEPT
                 !.rq      = Tail(@),
                 !.slots[s] = [op |-> r.op, k |-> r.k, seq |-> q,
                               tries |-> eng.tries - 1],
                 !.freeseq = Tail(@),
                 !.wire    = @ \cup {[seq |-> q, op |-> r.op, k |-> r.k]},
                 !.ops[r.op].sent[r.k] = @ + 1])

\* The sequence ids of the slots 1..n of sl that hold a request of
\* operation i, in slot order.
RECURSIVE SeqsHeld(_, _, _)
SeqsHeld(sl, i, n) ==
  IF n = 0 THEN <<>>
  ELSE SeqsHeld(sl, i, n - 1) \o
       (IF sl[n] # NoReq /\ sl[n].op = i THEN <<sl[n].seq>> ELSE <<>>)

\* Operation i of e has completed: what is left of it in the engine is
\* cancelled.  Its queued requests are dropped without being transmitted;
\* its requests in the window give up their slots, timers and sequence ids.
EngKeepSiblings(e, i) == e
EngCancelSiblings(e, i) ==
  IF e.ops[i].st # "done" THEN e
  ELSE [e EXCEPT
          !.rq      = SelectSeq(@, LAMBDA r : r.op # i),
          !.slots   = [s \in DOMAIN @ |->
                         IF @[s] # NoReq /\ @[s].op = i THEN NoReq ELSE @[s]],
          !.freeseq = SeqsHeld(e.slots, i, Len(e.slots)) \o @]

\* self._cb_handles.pop(callback), the first statement of every completion
\* callback: the handles left once the operations of o that are done have
\* had theirs.
cb_handles_pop_if_called(handles, o) ==
  {i \in handles : o[i].st # "done" \/ o[i].nS + o[i].nE = 0}
cb_handles_pop(handles, o) == {i \in handles : o[i].st # "done"}

\* Install the engine state e; a completed operation's handle is dropped
\* from _cb_handles by its callback.
EngInstall(e, handles) ==
  /\ ops' = e.ops
  /\ rq' = e.rq
  /\ slots' = e.slots
  /\ freeseq' = e.freeseq
  /\ wire' = e.wire
  /\ cb_handles' = cb_handles_pop(handles, e.ops)

----------------------------------------------------------------------------
(***************************************************************************)
(* Workloads.  A workload fixes what the user threads may call and the     *)
(* constructor arguments; every behaviour runs one workload.               *)
(***************************************************************************)
\* lens: the lengths of the writes; rlens: the lengths of the reads.
OpKinds == {"scp", "write", "read"}

\* Destinations (x, y, p) of an operation: chip (0, 0) core 0, and a chip
\* whose x does not fit the 8 bits it has on the wire.
Origin == <<0, 0, 0>>
Dests  == {Origin, <<257, 2, 3>>}
Both    == {<<TRUE, TRUE>>}

\* Operations, setters and close in any order.
WLifecycle ==
  [calls |-> MaxCalls, kinds |-> OpKinds, first |-> OpKinds,
   lens |-> {BulkLen}, rlens |-> {1}, cbs |-> Both,
   setters |-> TRUE, serial |-> FALSE, closers |-> {1},
   D |-> {1}, W |-> {1}, T |-> {1}, rcs |-> {RC_BAD},
   dests |-> {Origin},
   nargs |-> {MaxArgs}, rargs |-> {MaxArgs}, rdata |-> {<<>>},
   slack |-> {0}, addrs |-> {BaseAddr},
   nones |-> FALSE, reenter |-> FALSE]

\* Commands, setters and close in any order.
WShutdown ==
  [calls |-> MaxCalls, kinds |-> {"scp"}, first |-> {"scp"},
   lens |-> {0}, rlens |-> {0}, cbs |-> Both,
   setters |-> TRUE, serial |-> FALSE, closers |-> {1},
   D |-> {1}, W |-> {1}, T |-> {1}, rcs |-> {RC_BAD},
   dests |-> {Origin},
   nargs |-> {MaxArgs}, rargs |-> {MaxArgs}, rdata |-> {<<>>},
   slack |-> {0}, addrs |-> {BaseAddr},
   nones |-> TRUE, reenter |-> FALSE]

\* Every thread closes the connection, around one call.
WClose ==
  [calls |-> 1, kinds |-> OpKinds, first |-> OpKinds,
   lens |-> {BulkLen}, rlens |-> {BulkLen}, cbs |-> Both,
   setters |-> TRUE, serial |-> FALSE, closers |-> Threads,
   D |-> {1}, W |-> {1}, T |-> {1}, rcs |-> {RC_BAD},
   dests |-> Dests,
   nargs |-> {MaxArgs}, rargs |-> {MaxArgs}, rdata |-> {<<>>},
   slack |-> {0}, addrs |-> {BaseAddr},
   nones |-> FALSE, reenter |-> FALSE]

\* One operation of every kind, length and callback combination, for every
\* constructor argument (so with retransmissions).
WData ==
  [calls |-> 1, kinds |-> OpKinds, first |-> OpKinds,
   lens |-> 0..MaxLen, rlens |-> 0..MaxLen,
   cbs |-> BOOLEAN \X BOOLEAN, setters |-> FALSE, serial |-> FALSE,
   closers |-> {},
   D |-> Params, W |-> Params, T |-> Params, rcs |-> {RC_BAD, RC_BAD2},
   dests |-> {Origin},
   nargs |-> {MaxArgs}, rargs |-> {MaxArgs}, rdata |-> {<<>>},
   slack |-> {0}, addrs |-> {BaseAddr},
   nones |-> FALSE, reenter |-> FALSE]

\* Several operations sharing the window.
WShared ==
  [calls |-> MaxCalls, kinds |-> OpKinds, first |-> OpKinds,
   lens |-> {BulkLen}, rlens |-> {1}, cbs |-> Both,
   setters |-> FALSE, serial |-> FALSE, closers |-> {},
   D |-> {1}, W |-> Params, T |-> {1}, rcs |-> {RC_BAD},
   dests |-> {Origin},
   nargs |-> {MaxArgs}, rargs |-> {MaxArgs}, rdata |-> {<<>>},
   slack |-> {0}, addrs |-> {BaseAddr},
   nones |-> FALSE, reenter |-> FALSE]

\* test_n_outstanding: a connection with n_outstanding = 1 and n_tries = 1,
\* writes of two fragments, and the setters called between them.
WWindow ==
  [calls |-> MaxCalls + 1, kinds |-> {"write"}, first |-> {"write"},
   lens |-> {BulkLen}, rlens |-> {0}, cbs |-> Both,
   setters |-> TRUE, serial |-> FALSE, closers |-> {},
   D |-> {1}, W |-> {1}, T |-> {1}, rcs |-> {RC_BAD},
   dests |-> {Origin},
   nargs |-> {MaxArgs}, rargs |-> {MaxArgs}, rdata |-> {<<>>},
   slack |-> {0}, addrs |-> {BaseAddr},
   nones |-> FALSE, reenter |-> FALSE]

\* A write, then reads, of the same l bytes, for every constructor argument;
\* the caller waits for an operation to succeed before the next call.
WRoundTrip(l) ==
  [calls |-> MaxCalls, kinds |-> {"read"}, first |-> {"write"},
   lens |-> {l}, rlens |-> {l},
   cbs |-> {<<TRUE, TRUE>>, <<FALSE, TRUE>>}, setters |-> FALSE,
   serial |-> TRUE, closers |-> {},
   D |-> Params, W |-> Params, T |-> IF l = 1 THEN Params ELSE {1},
   rcs |-> {RC_BAD},
   dests |-> {Origin},
   nargs |-> {MaxArgs}, rargs |-> {MaxArgs}, rdata |-> {<<>>},
   slack |-> {0}, addrs |-> {BaseAddr},
   nones |-> FALSE, reenter |-> FALSE]

\* One bulk operation with retransmissions, and close.
WRetry ==
  [calls |-> 1, kinds |-> OpKinds, first |-> OpKinds,
   lens |-> {BulkLen}, rlens |-> {BulkLen}, cbs |-> Both,
   setters |-> FALSE, serial |-> FALSE, closers |-> {1},
   D |-> {1}, W |-> {1}, T |-> Params, rcs |-> {RC_BAD},
   dests |-> Dests,
   nargs |-> {MaxArgs}, rargs |-> {MaxArgs}, rdata |-> {<<>>},
   slack |-> {0}, addrs |-> {BaseAddr},
   nones |-> FALSE, reenter |-> FALSE]

\* Commands with on_success but without on_error, and setters.
WSilent ==
  [calls |-> MaxCalls + 1, kinds |-> {"scp"}, first |-> {"scp"},
   lens |-> {0}, rlens |-> {0}, cbs |-> {<<TRUE, FALSE>>},
   setters |-> TRUE, serial |-> FALSE, closers |-> {},
   D |-> {1}, W |-> {1}, T |-> {1}, rcs |-> {RC_BAD},
   dests |-> {Origin},
   nargs |-> {MaxArgs}, rargs |-> {MaxArgs}, rdata |-> {<<>>},
   slack |-> {0}, addrs |-> {BaseAddr},
   nones |-> FALSE, reenter |-> FALSE]

\* One command for every expected_args, answered with any number of
\* arguments, without data, with data that fits scp_data_length and with
\* data longer than it.
WArgs ==
  [calls |-> 1, kinds |-> {"scp"}, first |-> {"scp"},
   lens |-> {0}, rlens |-> {0}, cbs |-> BOOLEAN \X BOOLEAN,
   setters |-> FALSE, serial |-> FALSE, closers |-> {},
   D |-> {1}, W |-> {1}, T |-> {1}, rcs |-> {RC_BAD},
   dests |-> {Origin},
   nargs |-> 0..MaxArgs, rargs |-> 0..MaxArgs, rdata |-> {<<>>, <<41>>, <<41, 42>>},
   slack |-> {0}, addrs |-> {BaseAddr},
   nones |-> FALSE, reenter |-> FALSE]

\* One read into a buffer shorter than, as long as and longer than the
\* length read.
WBuffer ==
  [calls |-> 1, kinds |-> {"read"}, first |-> {"read"},
   lens |-> {BulkLen}, rlens |-> {BulkLen}, cbs |-> BOOLEAN \X BOOLEAN,
   setters |-> FALSE, serial |-> FALSE, closers |-> {},
   D |-> Params, W |-> {1}, T |-> {1}, rcs |-> {RC_BAD},
   dests |-> {Origin},
   nargs |-> {MaxArgs}, rargs |-> {MaxArgs}, rdata |-> {<<>>},
   slack |-> {0 - 1, 0, 1}, addrs |-> {BaseAddr},
   nones |-> FALSE, reenter |-> FALSE]

\* One bulk operation over a range that runs over the end of the address
\* space.
WWrap ==
  [calls |-> 1, kinds |-> {"write", "read"}, first |-> {"write", "read"},
   lens |-> {BulkLen, MaxLen}, rlens |-> {BulkLen, MaxLen}, cbs |-> Both,
   setters |-> FALSE, serial |-> FALSE, closers |-> {},
   D |-> Params, W |-> Params, T |-> {1}, rcs |-> {RC_BAD},
   dests |-> {Origin},
   nargs |-> {MaxArgs}, rargs |-> {MaxArgs}, rdata |-> {<<>>},
   slack |-> {0}, addrs |-> {AddrSpace - 2, AddrSpace - 1},
   nones |-> FALSE, reenter |-> FALSE]

\* Commands, and None appended to the queue as test_wakeup_queue does.
WNone ==
  [calls |-> MaxCalls, kinds |-> {"scp"}, first |-> {"scp"},
   lens |-> {0}, rlens |-> {0}, cbs |-> Both,
   setters |-> FALSE, serial |-> FALSE, closers |-> {},
   D |-> {1}, W |-> {1}, T |-> {1}, rcs |-> {RC_BAD},
   dests |-> {Origin},
   nargs |-> {MaxArgs}, rargs |-> {MaxArgs}, rdata |-> {<<>>},
   slack |-> {0}, addrs |-> {BaseAddr},
   nones |-> TRUE, reenter |-> FALSE]

\* One command whose on_error calls close(), and close.
WReenter ==
  [calls |-> 1, kinds |-> {"scp"}, first |-> {"scp"},
   lens |-> {0}, rlens |-> {0}, cbs |-> Both,
   setters |-> FALSE, serial |-> FALSE, closers |-> {1},
   D |-> {1}, W |-> {1}, T |-> {1}, rcs |-> {RC_BAD},
   dests |-> {Origin},
   nargs |-> {MaxArgs}, rargs |-> {MaxArgs}, rdata |-> {<<>>},
   slack |-> {0}, addrs |-> {BaseAddr},
   nones |-> FALSE, reenter |-> TRUE]

RoundTrips == {WRoundTrip(l) : l \in 1..BulkLen}

Workloads ==
  {WLifecycle, WClose, WData, WShared, WWindow, WRetry, WSilent, WArgs,
   WBuffer, WWrap, WNone}
    \cup RoundTrips

\* The workloads in which close() is called, for the termination of close().
CloseWorkloads == {WShutdown, WClose, WRetry}

\* ... and the one in which a callback calls close() itself.
FairWorkloads == CloseWorkloads \cup {WReenter}

\* The workloads run against a C library whose malloc(0) returns NULL.
ZeroWorkloads == CloseWorkloads \cup {WData}

(***************************************************************************)
(* Initial state: CSCPConnection.__init__ has returned.                    *)
(***************************************************************************)
FreshSlots(W)   == [s \in 1..W |-> NoReq]
FreshSeqsAlike(W) == [s \in 1..W |-> 0]
FreshSeqs(W)    == [s \in 1..W |-> s - 1]

\* The arguments _rs_init() hands to lib.rs_init: scp_data_length, n_tries
\* and n_outstanding of the connection object.
rs_init_swapped == [D |-> dlen, W |-> ntries, tries |-> nout]
rs_init_single_try == [D |-> dlen, W |-> nout, tries |-> 1]
rs_init_args == [D |-> dlen, W |-> nout, tries |-> ntries]

InitWith(workloads) ==
  /\ lim \in workloads
  /\ closed = FALSE
  /\ queue = <<>>
  /\ conn = "conn"
  /\ dlen \in lim.D
  /\ nout \in lim.W
  /\ ntries \in lim.T
  /\ cb_handles = {}
  /\ wakeup = FALSE
  /\ pc = "idle"
  /\ upc = [t \in Threads |-> "run"]
  /\ ret = "none"
  /\ ncalls = 0
  /\ ops = <<>>
  /\ inlock = {}
  /\ attr = [D |-> dlen, W |-> nout]
  /\ fn = NoTask
  /\ rs = "live"
  /\ eng = rs_init_args
  /\ rq = <<>>
  /\ slots = FreshSlots(rs_init_args.W)
  /\ freeseq = FreshSeqs(rs_init_args.W)
  /\ nfree = 0
  /\ badfree = FALSE
  /\ wire = {}
  /\ mem = InitMem

Init == InitWith(Workloads)

----------------------------------------------------------------------------
(***************************************************************************)
(* The public API, called from user threads.                               *)
(***************************************************************************)

\* The operations that had completed successfully so far.
Succeeded == {i \in DOMAIN ops : ops[i].st = "done" /\ ops[i].out = RS_OK}

\* The value the latest setter call of kind t assigned: that of the latest
\* such call not yet run (queued, or popped by the queue loop and about to
\* be run), cur if there is none.
LastSet(t, cur) ==
  LET q   == (IF fn = NoTask THEN <<>> ELSE <<fn>>) \o queue
      idx == {j \in 1..Len(q) : q[j].t = t}
  IN IF idx = {} THEN cur
     ELSE q[CHOOSE j \in idx : \A j2 \in idx : j2 <= j].a

\* A fresh UserOp: its arguments and the history of its callbacks
\* (atclose: close() was called while the operation was not completed;
\* seen: the operations that had succeeded when this one was submitted;
\* postset: a setter had been called before; setD, setW: the values last
\* assigned to scp_data_length and n_outstanding before the call).
\* The operations that have failed without an on_error to report it to.
Unreported ==
  {i \in DOMAIN ops :
     ops[i].st = "done" /\ ops[i].out # RS_OK /\ ~ops[i].onE}

NewOp(kind, len, onS, onE) ==
  [kind |-> kind, addr |-> BaseAddr, len |-> len, onS |-> onS, onE |-> onE,
   seen |-> Succeeded, after |-> Unreported, atfree |-> conn = None,
   postset |-> ncalls > Len(ops),
   setD |-> LastSet("setD", dlen), setW |-> LastSet("setW", nout),
   st |-> "intake", D |-> 0, W |-> 0, frags |-> <<>>, sent |-> <<>>, ans |-> <<>>,
   resp |-> <<>>,
   fres |-> <<>>, frc |-> <<>>, remaining |-> 0, first_error |-> RS_OK, first_rc |-> RC_OK,
   dbuf |-> <<>>,
   buf |-> IF kind = "read" THEN [j \in 1..len |-> Fill] ELSE <<>>,
   out |-> "none", nS |-> 0, nE |-> 0, exc |-> "none", exc_rc |-> "none",
   atclose |-> FALSE]

\* The entry None of the queue.
NoneTask == [t |-> "None", a |-> 0]

\* A thread can call the API unless it is blocked in close().
CanCall(t) == upc[t] \in {"run", "returned"}

\* _execute_in_bg_thread: under self._lock, enqueue the call and wake the
\* libuv thread unless the connection is closed, in which case IOError.
execute_unchecked(task) == TRUE
execute_accepts(task) == ~closed

_execute_in_bg_thread(t, task) ==
  /\ CanCall(t)
  /\ ncalls < lim.calls
  /\ lim.serial => \A i \in DOMAIN ops : i \in Succeeded
  /\ ncalls' = ncalls + 1
  /\ IF execute_accepts(task)
     THEN /\ queue' = Append(queue, task)
          /\ wakeup' = TRUE
          /\ ret' = "ok"
     ELSE /\ ret' = "IOError"
          /\ UNCHANGED <<queue, wakeup>>
  /\ UNCHANGED <<closed, conn, dlen, nout, ntries, cb_handles, pc, upc,
                 lim, fn, inlock, engvars, netvars>>

\* send_scp(...), write(...), read(...) called by thread t.
SubmitOp(t, kind, len, cb) ==
  LET task == [t |-> "op", a |-> Len(ops) + 1]
  IN /\ kind \in (IF ncalls = 0 THEN lim.first ELSE lim.kinds)
     /\ _execute_in_bg_thread(t, task)
     /\ UNCHANGED attr
     /\ \E d \in lim.dests, n \in lim.nargs, b \in lim.slack, a \in lim.addrs :
          ops' = IF execute_accepts(task)
                 THEN Append(ops, [NewOp(kind, len, cb[1], cb[2]) EXCEPT
                                     !.addr = a,
                                     !.buf = IF kind = "read"
                                             THEN [j \in 1..(len + b) |-> Fill]
                                             ELSE <<>>] @@
                                  [x |-> d[1], y |-> d[2], p |-> d[3],
                                   exc_dest |-> "none",
                                   behind_none |-> NoneTask \in Range(queue),
                                   buflen |-> len + b,
                                   expected_args |-> n, n_args |-> 0,
                                   args |-> [j \in 1..MaxArgs |-> 0],
                                   reply |-> [n |-> 0, data |-> <<>>],
                                   pkt |-> SCPPacket(0, ReplyArgs, <<>>)])
                 ELSE ops

send_scp(t) ==
  \E cb \in lim.cbs : SubmitOp(t, "scp", 0, cb)

write(t) ==
  \E len \in lim.lens, cb \in lim.cbs : SubmitOp(t, "write", len, cb)

read(t) ==
  \E len \in lim.rlens, cb \in lim.cbs : SubmitOp(t, "read", len, cb)

\* "with c._lock: c._queue.append(None)", as test_wakeup_queue does to stand
\* for a queue found empty once the lock is held.
append_none(t) ==
  /\ lim.nones
  /\ CanCall(t)
  /\ ~closed
  /\ NoneTask \notin Range(queue)
  /\ queue' = Append(queue, NoneTask)
  /\ UNCHANGED <<closed, conn, dlen, nout, ntries, cb_handles, wakeup, pc, upc,
                 ret, ncalls, lim, attr, fn, inlock, ops, engvars, netvars>>

\* c.scp_data_length and c.n_outstanding read: the attribute as it is.
get_scp_data_length == dlen
get_n_outstanding == nout

\* c.scp_data_length = value
set_scp_data_length(t) ==
  \E v \in Params :
    /\ lim.setters
    /\ _execute_in_bg_thread(t, [t |-> "setD", a |-> v])
    /\ attr' = IF execute_accepts([t |-> "setD", a |-> v])
               THEN [attr EXCEPT !.D = v] ELSE attr
    /\ UNCHANGED ops

\* c.n_outstanding = value
set_n_outstanding(t) ==
  \E v \in Params :
    /\ lim.setters
    /\ _execute_in_bg_thread(t, [t |-> "setW", a |-> v])
    /\ attr' = IF execute_accepts([t |-> "setW", a |-> v])
               THEN [attr EXCEPT !.W = v] ELSE attr
    /\ UNCHANGED ops

\* close(): "with self._lock: self._closed = True"; any thread may call it,
\* also one whose earlier close() has returned.
close(t) ==
  /\ t \in lim.closers
  /\ CanCall(t)
  /\ closed' = TRUE
  /\ upc' = [upc EXCEPT ![t] = "closing"]
  /\ ops' = [i \in DOMAIN ops |->
               [ops[i] EXCEPT !.atclose = @ \/ ops[i].st # "done"]]
  /\ UNCHANGED <<queue, conn, dlen, nout, ntries, cb_handles, wakeup, pc, ret,
                 ncalls, lim, attr, fn, inlock, engvars, netvars>>

\* ... then, the lock released, self._wakeup() ...
close_wakeup(t) ==
  /\ upc[t] = "closing"
  /\ wakeup' = TRUE
  /\ upc' = [upc EXCEPT ![t] = "join"]
  /\ UNCHANGED <<closed, queue, conn, dlen, nout, ntries, cb_handles, pc, ret,
                 ncalls, lim, attr, fn, inlock, ops, engvars, netvars>>

\* ... then self._bg_thread.join(): return once the event loop has ended.
close_without_join(t) == upc[t] = "join"
close_joined(t) == upc[t] = "join" /\ pc = "stopped"

close_return(t) ==
  /\ close_joined(t)
  /\ upc' = [upc EXCEPT ![t] = "returned"]
  /\ UNCHANGED <<closed, queue, conn, dlen, nout, ntries, cb_handles, wakeup,
                 pc, ret, ncalls, lim, attr, fn, inlock, ops, engvars, netvars>>

----------------------------------------------------------------------------
(***************************************************************************)
(* Engine teardown and creation.                                           *)
(***************************************************************************)

\* lib.rs_free on a live engine: every request in the queue or the window is
\* cancelled, so every operation the engine holds completes with its first
\* error, or RS_EFREE when it has none; the socket is closed.
rs_free_ops_again(o) ==
  [i \in DOMAIN o |->
     IF o[i].st \in {"engine", "done"}
     THEN EngComplete([o[i] EXCEPT
            !.remaining = 0,
            !.fres = [k \in DOMAIN @ |-> IF @[k] = "none" THEN RS_EFREE ELSE @[k]],
            !.first_error = IF @ = RS_OK THEN RS_EFREE ELSE @])
     ELSE o[i]]
rs_free_ops(o) ==
  [i \in DOMAIN o |->
     IF o[i].st = "engine"
     THEN EngComplete([o[i] EXCEPT
            !.remaining = 0,
            !.fres = [k \in DOMAIN @ |-> IF @[k] = "none" THEN RS_EFREE ELSE @[k]],
            !.first_error = IF @ = RS_OK THEN RS_EFREE ELSE @])
     ELSE o[i]]

CancelWindowOnly(q) == q
CancelQueue(q) == <<>>

lib_rs_free ==
  IF rs = "live"
  THEN /\ rs' = "freeing"
       /\ nfree' = nfree + 1
       /\ EngInstall([ops |-> rs_free_ops(ops), rq |-> CancelQueue(rq),
                      slots |-> FreshSlots(eng.W), freeseq |-> FreshSeqs(eng.W),
                      wire |-> {}], cb_handles)
  ELSE \* a handle of an engine that is already being freed
       /\ nfree' = nfree + 1
       /\ UNCHANGED <<rs, ops, rq, slots, freeseq, wire, cb_handles>>

\* _rs_free(): lib.rs_free(self._conn, ...); self._conn = None.  With
\* self._conn = None the CFFI call raises TypeError before reaching C.
rs_free_skipped ==
  UNCHANGED <<conn, rs, nfree, ops, rq, slots, freeseq, wire, cb_handles,
              badfree>>

rs_free_keeps_conn ==
  IF conn = None
  THEN /\ badfree' = TRUE
       /\ UNCHANGED <<conn, rs, nfree, ops, rq, slots, freeseq, wire, cb_handles>>
  ELSE /\ lib_rs_free
       /\ UNCHANGED <<conn, badfree>>

_rs_free ==
  IF conn = None
  THEN /\ badfree' = TRUE
       /\ UNCHANGED <<conn, rs, nfree, ops, rq, slots, freeseq, wire, cb_handles>>
  ELSE /\ lib_rs_free
       /\ conn' = None
       /\ UNCHANGED badfree

_rs_init ==
  /\ conn' = "conn"
  /\ rs' = "live"
  /\ eng' = rs_init_args
  /\ slots' = FreshSlots(rs_init_args.W)
  /\ freeseq' = FreshSeqs(rs_init_args.W)
  /\ rq' = <<>>
  /\ nfree' = 0

----------------------------------------------------------------------------
(***************************************************************************)
(* The libuv thread: _on_wakeup, the queued calls, _on_free.               *)
(***************************************************************************)

\* async_cb: _on_wakeup() is entered.
on_wakeup_start ==
  /\ pc = "idle"
  /\ wakeup
  /\ wakeup' = FALSE
  /\ pc' = "drain"
  /\ UNCHANGED <<closed, queue, conn, dlen, nout, ntries, cb_handles, upc, ret,
                 ncalls, lim, attr, fn, inlock, ops, engvars, netvars>>

\* The data length write() hands to rs_write: len(data).
write_len_truncated(o) == Min(o.len, dlen)
write_len(o) == o.len

\* lib.rs_send_scp / lib.rs_write / lib.rs_read: the engine takes operation
\* i, given as o with len bytes of data; it queues o's sub-requests and
\* drains the queue into the window.  An operation without sub-requests has
\* no fragment left and is completed at once.
lib_rs_submit(i, o, len) ==
  LET fr == IF o.kind = "scp" THEN <<[addr |-> 0, size |-> 0]>>
            ELSE Fragments(o.addr, len, eng.D)
      n  == Len(fr)
      o1 == [o EXCEPT !.st = "engine", !.D = eng.D, !.W = eng.W,
                      !.frags = fr,
                      !.sent = [k \in 1..n |-> 0],
                      !.ans  = [k \in 1..n |-> 0],
                      !.fres = [k \in 1..n |-> "none"],
                      !.frc  = [k \in 1..n |-> "none"],
                      !.resp = [k \in 1..n |-> <<>>],
                      !.remaining = n]
      o2 == IF n = 0 THEN EngComplete(o1) ELSE o1
      e1 == [ops |-> [ops EXCEPT ![i] = o2],
             rq |-> rq \o [k \in 1..n |-> [op |-> i, k |-> k]],
             slots |-> slots, freeseq |-> freeseq, wire |-> wire]
  IN EngDrain(e1)

\* The body of send_scp / write / read, run in the libuv thread: register
\* the _Callback, allocate the C buffer (nothing written to it yet) and
\* hand the request with its data length to the engine.
RunOp(i) ==
  LET o   == [ops[i] EXCEPT !.dbuf = <<>>]
      len == IF o.kind = "write" THEN write_len(o) ELSE o.len
  IN EngInstall(lib_rs_submit(i, o, len), cb_handles \cup {i})

\* Where _on_wakeup holds self._lock: around the popleft and around the
\* whole final block, which contains the call of _rs_free; not around fn().
LockHeld(site) == site \in {"pop", "final"}

\* The user callbacks called in the step being taken.
CallbacksRun ==
  {c \in {"on_success", "on_error"} :
     \E i \in DOMAIN ops :
       IF c = "on_success" THEN ops'[i].nS > ops[i].nS
                           ELSE ops'[i].nE > ops[i].nE}

RunAt(site, what) ==
  inlock' = IF LockHeld(site) THEN inlock \cup what \cup CallbacksRun
            ELSE inlock

\* In a workload whose on_error calls close(): a call of on_error in the
\* step being taken, made while the libuv thread does not hold self._lock,
\* sets self._closed and sends the wakeup; join() of the thread's own Thread
\* object then raises RuntimeError, which leaves the callback.
callback_close ==
  IF lim.reenter /\ "on_error" \in CallbacksRun
  THEN closed' = TRUE /\ wakeup' = TRUE
  ELSE UNCHANGED <<closed, wakeup>>

\* "while self._queue and self._conn is not None"
drain_while_queue == queue # <<>>
drain_while == queue # <<>> /\ conn # None

\* fn = self._queue.popleft()
popright(q) == [fn |-> q[Len(q)], rest |-> SubSeq(q, 1, Len(q) - 1)]
popleft(q) == [fn |-> Head(q), rest |-> Tail(q)]

\* One turn of "while self._queue and self._conn is not None": pop an entry
\* under the lock ...
drain_pop ==
  /\ pc = "drain"
  /\ drain_while
  /\ fn' = popleft(queue).fn
  /\ queue' = popleft(queue).rest
  /\ pc' = "popped"
  /\ UNCHANGED <<closed, conn, dlen, nout, ntries, cb_handles, wakeup, upc, ret,
                 ncalls, lim, attr, ops, engvars, netvars>>
  /\ RunAt("pop", {})

\* ... and, the lock released, run it: the body of send_scp / write / read.
drain_op ==
  /\ pc = "popped"
  /\ fn.t = "op"
  /\ RunOp(fn.a)
  /\ RunAt("task", {"task"})
  /\ fn' = NoTask
  /\ pc' = "drain"
  /\ UNCHANGED <<closed, queue, conn, dlen, nout, ntries, wakeup, upc, ret,
                 ncalls, lim, attr, rs, eng, nfree, badfree, mem>>

\* The entry popped is None: "if fn is not None" skips it and the loop goes
\* on.
none_raises == "idle"
none_skipped == "drain"

drain_none ==
  /\ pc = "popped"
  /\ fn.t = "None"
  /\ fn' = NoTask
  /\ pc' = none_skipped
  /\ UNCHANGED <<closed, queue, conn, dlen, nout, ntries, cb_handles, wakeup,
                 upc, ret, ncalls, lim, attr, inlock, ops, engvars, netvars>>

\* lib.malloc returns NULL in the body of send_scp / write / read: the
\* _Callback is registered already, the assert raises, the exception leaves
\* _on_wakeup (skipping the rest of the loop and the final block) and is
\* dropped at the C boundary of async_cb; lib.rs_send_scp / rs_write /
\* rs_read is not reached.
malloc_failure(h, i) == h \cup {i}

drain_op_nomem ==
  /\ pc = "popped"
  /\ fn.t = "op"
  /\ cb_handles' = malloc_failure(cb_handles, fn.a)
  /\ ops' = [ops EXCEPT ![fn.a].st = "raised"]
  /\ fn' = NoTask
  /\ pc' = "idle"
  /\ UNCHANGED <<closed, queue, conn, dlen, nout, ntries, wakeup, upc, ret,
                 ncalls, lim, attr, inlock, engvars, netvars>>

\* lib.malloc(0) in the body of write(b'') or read(length = 0): the C
\* library may return NULL for a request of no bytes, and the assert raises
\* as it does when memory is short.
malloc_zero(o) == o.kind \in {"write", "read"} /\ o.len = 0

drain_op_malloc0 ==
  /\ pc = "popped"
  /\ fn.t = "op"
  /\ malloc_zero(ops[fn.a])
  /\ cb_handles' = malloc_failure(cb_handles, fn.a)
  /\ ops' = [ops EXCEPT ![fn.a].st = "raised"]
  /\ fn' = NoTask
  /\ pc' = "idle"
  /\ UNCHANGED <<closed, queue, conn, dlen, nout, ntries, wakeup, upc, ret,
                 ncalls, lim, attr, inlock, engvars, netvars>>

\* The body of the setters: assign the attribute and free the engine.
drain_set_scp_data_length ==
  /\ pc = "popped"
  /\ fn.t = "setD"
  /\ dlen' = fn.a
  /\ _rs_free
  /\ RunAt("task", {"task", "_rs_free"})
  /\ callback_close
  /\ fn' = NoTask
  /\ pc' = "drain"
  /\ UNCHANGED <<queue, nout, ntries, upc, ret, ncalls, lim,
                 attr, eng, mem>>

drain_set_n_outstanding ==
  /\ pc = "popped"
  /\ fn.t = "setW"
  /\ nout' = fn.a
  /\ _rs_free
  /\ RunAt("task", {"task", "_rs_free"})
  /\ callback_close
  /\ fn' = NoTask
  /\ pc' = "drain"
  /\ UNCHANGED <<queue, dlen, ntries, upc, ret, ncalls, lim,
                 attr, eng, mem>>

\* The loop ends: the queue is empty or the engine is being re-created.
drain_exit ==
  /\ pc = "drain"
  /\ ~drain_while
  /\ pc' = "final"
  /\ UNCHANGED <<closed, queue, conn, dlen, nout, ntries, cb_handles, wakeup,
                 upc, ret, ncalls, lim, attr, fn, inlock, ops, engvars, netvars>>

\* "with self._lock: if self._closed: ..." at the end of _on_wakeup.
final_open ==
  /\ pc = "final"
  /\ ~closed
  /\ pc' = "idle"
  /\ UNCHANGED <<closed, queue, conn, dlen, nout, ntries, cb_handles, wakeup,
                 upc, ret, ncalls, lim, attr, fn, inlock, ops, engvars, netvars>>

final_rewake ==
  /\ pc = "final"
  /\ closed /\ queue # <<>>
  /\ wakeup' = TRUE
  /\ pc' = "idle"
  /\ UNCHANGED <<closed, queue, conn, dlen, nout, ntries, cb_handles,
                 upc, ret, ncalls, lim, attr, fn, inlock, ops, engvars, netvars>>

\* "... if not self._queue: self._rs_free()", still under self._lock.  In a
\* workload whose on_error calls close(), the first on_error the teardown
\* calls blocks in "with self._lock" of close(): the lock is not reentrant
\* and the libuv thread holds it, so lib.rs_free never returns.
final_blocks ==
  /\ lim.reenter /\ conn # None /\ rs = "live"
  /\ \E i \in DOMAIN ops : ops[i].st = "engine" /\ ops[i].onE

\* The operations when rs_free, completing them in the order of their
\* submission, has called the first on_error.
rs_free_ops_blocked(o) ==
  LET b == CHOOSE i \in DOMAIN o :
             /\ o[i].st = "engine" /\ o[i].onE
             /\ \A j \in DOMAIN o : (o[j].st = "engine" /\ o[j].onE) => i <= j
  IN [i \in DOMAIN o |-> IF i <= b THEN rs_free_ops(o)[i] ELSE o[i]]

final_free ==
  /\ pc = "final"
  /\ closed /\ queue = <<>>
  /\ IF final_blocks
     THEN /\ rs' = "freeing"
          /\ nfree' = nfree + 1
          /\ EngInstall([ops |-> rs_free_ops_blocked(ops),
                         rq |-> CancelQueue(rq),
                         slots |-> FreshSlots(eng.W),
                         freeseq |-> FreshSeqs(eng.W),
                         wire |-> {}], cb_handles)
          /\ pc' = "blocked"
          /\ UNCHANGED <<conn, badfree>>
     ELSE /\ _rs_free
          /\ pc' = "idle"
  /\ RunAt("final", {"_rs_free"})
  /\ UNCHANGED <<closed, queue, dlen, nout, ntries, wakeup, upc, ret, ncalls,
                 lim, attr, fn, eng, mem>>

\* free_cb -> _on_free(): the engine has been freed.  Closed: uv_stop, the
\* event loop and with it the background thread end.
on_free_always_stops == TRUE
on_free_closed == closed

on_free_stop ==
  /\ pc = "idle"
  /\ rs = "freeing"
  /\ on_free_closed
  /\ rs' = "none"
  /\ pc' = "stopped"
  /\ UNCHANGED <<closed, queue, conn, dlen, nout, ntries, cb_handles, wakeup,
                 upc, ret, ncalls, lim, attr, fn, inlock, ops, eng, rq, slots, freeseq,
                 nfree, badfree, netvars>>

\* Not closed: re-create the engine and process the calls queued meanwhile.
on_free_reinit ==
  /\ pc = "idle"
  /\ rs = "freeing"
  /\ ~on_free_closed
  /\ _rs_init
  /\ pc' = "drain"
  /\ UNCHANGED <<closed, queue, dlen, nout, ntries, cb_handles, wakeup,
                 upc, ret, ncalls, lim, attr, fn, inlock, ops, badfree, netvars>>

----------------------------------------------------------------------------
(***************************************************************************)
(* The remote machine and the engine's socket and timers.                  *)
(***************************************************************************)

\* The data slice a write fragment carries.
FragData(o, k) ==
  [j \in 1..o.frags[k].size |-> WriteData(o.len)[(k - 1) * o.D + j]]

\* The data field of the machine's response to request packet p.
ServerData(p, rc) ==
  LET o == ops[p.op]
      f == o.frags[p.k]
  IN IF o.kind = "read" /\ rc = RC_OK
     THEN [j \in 1..f.size |-> mem[(f.addr + j - 1) % AddrSpace]]
     ELSE <<>>

\* The machine's memory after serving request packet p.
ServerMem(p, rc) ==
  LET o == ops[p.op]
      f == o.frags[p.k]
  IN IF o.kind = "write" /\ rc = RC_OK
     THEN [a \in DOMAIN mem |->
             IF \E j \in 1..f.size : a = (f.addr + j - 1) % AddrSpace
             THEN FragData(o, p.k)[((a - f.addr + AddrSpace) % AddrSpace) + 1]
             ELSE mem[a]]
     ELSE mem

\* The slot a response with sequence id q is routed to (0: none).
SlotOfAny(q) ==
  IF \E s \in DOMAIN slots : slots[s] # NoReq /\ slots[s].seq = q
  THEN CHOOSE s \in DOMAIN slots : slots[s] # NoReq /\ slots[s].seq = q
  ELSE IF \E s \in DOMAIN slots : slots[s] # NoReq
  THEN CHOOSE s \in DOMAIN slots : slots[s] # NoReq
  ELSE 0

SlotOf(q) ==
  IF \E s \in DOMAIN slots : slots[s] # NoReq /\ slots[s].seq = q
  THEN CHOOSE s \in DOMAIN slots : slots[s] # NoReq /\ slots[s].seq = q
  ELSE 0

\* The slot table once the response routed to slot s has been taken: the
\* slot's timer is cancelled and the slot freed.
TakenKeepsTimer(sl, s) == sl
Taken(sl, s) == [sl EXCEPT ![s] = NoReq]

\* The machine answers a transmission of request p (each transmission at
\* most once) and the response arrives: it is routed by sequence id, the
\* slot is freed, the id retired, the fragment completed and the queue
\* drained again.  No matching slot: dropped.
on_receive(p, rc) ==
  /\ pc = "idle"
  /\ rs = "live"
  /\ p \in wire
  /\ ops[p.op].ans[p.k] < ops[p.op].sent[p.k]
  /\ mem' = ServerMem(p, rc)
  /\ \E n \in lim.rargs, rd \in lim.rdata :
     LET s    == SlotOf(p.seq)
         opsA == [ops EXCEPT ![p.op].ans[p.k] = @ + 1]
         raw  == IF ops[p.op].kind = "scp" /\ rc = RC_OK THEN rd
                 ELSE ServerData(p, rc)
     IN IF s = 0
        THEN /\ ops' = opsA
             /\ UNCHANGED <<rq, slots, freeseq, wire, cb_handles>>
        ELSE LET r    == slots[s]
                 err  == IF rc = RC_OK THEN RS_OK ELSE RS_EBAD_RC
                 data == IF ops[r.op].kind = "scp"
                         THEN EngTruncate(raw, ops[r.op].D) ELSE raw
             IN \E heap \in Heaps(opsA[r.op], r.k, err, rc, data) :
                LET e1 == [ops |-> [opsA EXCEPT ![r.op] =
                                      EngFragDone(IF @.kind = "scp"
                                                  THEN EngDecode(@, n, raw)
                                                  ELSE Malloced(@, heap),
                                                  r.k, err, rc, data)],
                           rq |-> rq,
                           slots |-> Taken(slots, s),
                           freeseq |-> <<r.seq>> \o freeseq,
                           wire |-> wire]
                IN EngInstall(EngDrain(EngCancelSiblings(e1, r.op)),
                              cb_handles)
  /\ callback_close
  /\ UNCHANGED <<queue, conn, dlen, nout, ntries, pc, upc, ret,
                 ncalls, lim, attr, fn, inlock, rs, eng, nfree, badfree>>

\* The timer of slot s fires: retransmit with the same sequence id while
\* retries remain ...
on_timeout_retry(s) ==
  /\ pc = "idle"
  /\ rs = "live"
  /\ slots[s] # NoReq
  /\ slots[s].tries > 0
  /\ slots' = [slots EXCEPT ![s].tries = @ - 1]
  /\ ops' = [ops EXCEPT ![slots[s].op].sent[slots[s].k] = @ + 1]
  /\ wire' = wire \cup {[seq |-> slots[s].seq, op |-> slots[s].op,
                          k |-> slots[s].k]}
  /\ UNCHANGED <<closed, queue, conn, dlen, nout, ntries, cb_handles, wakeup,
                 pc, upc, ret, ncalls, lim, attr, fn, inlock, rs, eng, rq, freeseq,
                 nfree, badfree, mem>>

\* ... otherwise free the slot, retire the id and fail with RS_ETIMEOUT: the
\* operation completes with the error, what is left of it is cancelled and
\* the queue is drained again.
on_timeout_fail(s) ==
  /\ pc = "idle"
  /\ rs = "live"
  /\ slots[s] # NoReq
  /\ slots[s].tries = 0
  /\ LET r  == slots[s]
         e1 == [ops |-> [ops EXCEPT ![r.op] =
                            EngFragDone(@, r.k, RS_ETIMEOUT, RC_OK, <<>>)],
                rq |-> rq,
                slots |-> [slots EXCEPT ![s] = NoReq],
                freeseq |-> <<r.seq>> \o freeseq,
                wire |-> wire]
     IN EngInstall(EngDrain(EngCancelSiblings(e1, r.op)), cb_handles)
  /\ callback_close
  /\ UNCHANGED <<queue, conn, dlen, nout, ntries, pc, upc, ret,
                 ncalls, lim, attr, fn, inlock, rs, eng, nfree, badfree, mem>>

----------------------------------------------------------------------------
Next ==
  \/ \E t \in Threads : send_scp(t)
  \/ \E t \in Threads : write(t)
  \/ \E t \in Threads : read(t)
  \/ \E t \in Threads : set_scp_data_length(t)
  \/ \E t \in Threads : set_n_outstanding(t)
  \/ \E t \in Threads : append_none(t)
  \/ \E t \in Threads : close(t)
  \/ \E t \in Threads : close_wakeup(t)
  \/ \E t \in Threads : close_return(t)
  \/ on_wakeup_start
  \/ drain_pop
  \/ drain_op
  \/ drain_none
  \/ drain_set_scp_data_length
  \/ drain_set_n_outstanding
  \/ drain_exit
  \/ final_open
  \/ final_rewake
  \/ final_free
  \/ on_free_stop
  \/ on_free_reinit
  \/ \E p \in wire, rc \in {RC_OK} \cup lim.rcs : on_receive(p, rc)
  \/ \E s \in DOMAIN slots : on_timeout_retry(s)
  \/ \E s \in DOMAIN slots : on_timeout_fail(s)

Spec == Init /\ [][Next]_vars

\* Fairness of the libuv thread: it keeps running its callbacks, a pending
\* close callback (free_cb) is not starved by wakeups, and a joined thread
\* returns from close().
UvLoop ==
  \/ on_wakeup_start
  \/ drain_pop
  \/ drain_op
  \/ drain_none
  \/ drain_set_scp_data_length
  \/ drain_set_n_outstanding
  \/ drain_exit
  \/ final_open
  \/ final_rewake
  \/ final_free

FairSpec ==
  /\ InitWith(FairWorkloads)
  /\ [][Next]_vars
  /\ WF_vars(UvLoop)
  /\ SF_vars(on_free_stop \/ on_free_reinit)
  /\ \A t \in Threads : WF_vars(close_wakeup(t))
  /\ \A t \in Threads : WF_vars(close_return(t))

\* The behaviours in which an allocation of a request buffer may fail.
NextAlloc ==
  \/ Next
  \/ drain_op_nomem

AllocSpec ==
  /\ InitWith(CloseWorkloads)
  /\ [][NextAlloc]_vars
  /\ WF_vars(UvLoop)
  /\ SF_vars(on_free_stop \/ on_free_reinit)
  /\ \A t \in Threads : WF_vars(close_wakeup(t))
  /\ \A t \in Threads : WF_vars(close_return(t))

\* The behaviours with a C library whose malloc(0) returns NULL.
NextZero ==
  \/ Next
  \/ drain_op_malloc0

ZeroSpec == InitWith(ZeroWorkloads) /\ [][NextZero]_vars

----------------------------------------------------------------------------
(***************************************************************************)
(* Properties.                                                             *)
(***************************************************************************)
Ops == DOMAIN ops

\* The calls accepted and not yet run, oldest first: the entry the queue
\* loop has popped, if any, and the queue.
Pending == (IF fn = NoTask THEN <<>> ELSE <<fn>>) \o queue

\* The queue loop pops an entry; the libuv thread runs (or skips) the entry
\* it has popped.
EntryPopped == pc = "drain" /\ queue # <<>> /\ queue' = Tail(queue)
                /\ fn' = Head(queue)
EntryRuns == pc = "popped" /\ fn # NoTask /\ fn' = NoTask

RECURSIVE SumSizes(_)
SumSizes(f) == IF f = <<>> THEN 0 ELSE Head(f).size + SumSizes(Tail(f))

RECURSIVE Concat(_)
Concat(ss) == IF ss = <<>> THEN <<>> ELSE Head(ss) \o Concat(Tail(ss))

InFlight == Cardinality({s \in DOMAIN slots : slots[s] # NoReq})

SomeCloseReturned == \E t \in Threads : upc[t] = "returned"

\* What the user's callbacks have seen so far.
Callbacks == [i \in Ops |-> <<ops[i].nS, ops[i].nE, ops[i].exc>>]

\* C1: the completion of a UserOp is delivered at most once: on_success and
\* on_error are invoked at most once in total, never both.
C1_CompletionAtMostOnce ==
  \A i \in Ops : ops[i].nS + ops[i].nE <= 1

\* A two-fragment operation that was reported to on_error, and one that was
\* reported to on_success.
C1_Witness ==
  /\ \E i \in Ops : Len(ops[i].frags) = 2 /\ ops[i].nE = 1
  /\ \E i \in Ops : ops[i].nS = 1

\* C2: the number of requests transmitted and still awaiting a response or
\* a timeout never exceeds n_outstanding; a lone two-fragment write that has
\* had no fragment retired has only its first fragment transmitted when
\* W = 1, and both when W >= 2.
C2_WindowBound ==
  /\ InFlight <= nout
  /\ \A i \in Ops :
       (/\ Len(ops) = 1 /\ ops[i].kind = "write" /\ ops[i].st = "engine"
        /\ Len(ops[i].frags) = 2 /\ ops[i].remaining = 2)
       => /\ ops[i].sent[1] >= 1
          /\ nout = 1 => ops[i].sent[2] = 0
          /\ nout >= 2 => ops[i].sent[2] >= 1

\* A window of one slot holds the first fragment of a two-fragment write
\* while the second waits in the request queue.
C2_Witness ==
  /\ nout = 1 /\ InFlight = 1 /\ Len(rq) = 1
  /\ \E i \in Ops : ops[i].kind = "write" /\ ops[i].remaining = 2

\* C3 (as a property of the final state): once the event loop has stopped,
\* every UserOp whose submission was accepted has completed.
C3_AcceptedOpsComplete ==
  pc = "stopped" => \A i \in Ops : ops[i].st = "done"

\* C4: once close() has returned, every UserOp that was not completed when
\* close() was called has completed with the FREED error: on_error (when
\* given) was called once with a generic SCPError, on_success never.
\* Stated for the operations that have at least one sub-request.
C4_CloseFreesPending ==
  SomeCloseReturned =>
    \A i \in Ops :
      (ops[i].atclose /\ (ops[i].kind = "scp" \/ ops[i].len > 0)) =>
        /\ ops[i].st = "done"
        /\ ops[i].out = RS_EFREE
        /\ ops[i].nS = 0
        /\ ops[i].onE => ops[i].nE = 1 /\ ops[i].exc = "SCPError"

\* C5: after a call of close() has returned, no user callback is invoked.
C5_NoCallbackAfterClose ==
  [][SomeCloseReturned => Callbacks' = Callbacks]_vars

\* close() has returned and an operation had been failed with FREED before.
C5_Witness ==
  /\ SomeCloseReturned
  /\ \E i \in Ops : ops[i].atclose /\ ops[i].nE = 1 /\ ops[i].exc = "SCPError"

\* C6: once the closed flag is set, a submission call fails with IOError,
\* appends nothing to the intake queue and sends no wakeup; no task is ever
\* appended while the flag is set.
C6_ClosedRejects ==
  [][closed =>
       /\ Len(queue') <= Len(queue)
       /\ ncalls' # ncalls =>
            /\ ret' = "IOError"
            /\ queue' = queue
            /\ wakeup' = wakeup
            /\ ops' = ops]_vars

\* A call was rejected after close() while the libuv thread was still
\* running and did not see a wakeup from it.
C6_Witness ==
  closed /\ ret = "IOError" /\ pc # "stopped" /\ ~wakeup

\* C7: every call of close() returns (under the fairness of FairSpec), also
\* when a user callback calls the API itself.
C7_CloseTerminates ==
  \A t \in Threads :
    (upc[t] \in {"closing", "join"}) ~> (upc[t] = "returned")

\* C8: a further close() changes nothing observable: the engine is torn
\* down at most once, and once a close() has returned the callbacks'
\* history, the operations' outcomes, the engine and the remote memory
\* stay as they are.
Observable ==
  <<Callbacks, [i \in Ops |-> <<ops[i].st, ops[i].out, ops[i].buf>>],
    rs, conn, pc, nfree, cb_handles, mem>>

C8_CloseIdempotent ==
  /\ [](nfree <= 1)
  /\ [][SomeCloseReturned => Observable' = Observable]_vars

\* Two calls of close() have returned, after an operation was failed.
C8_Witness ==
  /\ \A t \in Threads : upc[t] = "returned"
  /\ \E i \in Ops : ops[i].out = RS_EFREE

\* C9: a bulk write of len bytes with maximum payload D is split into
\* ceil(len / D) sub-requests; the k-th carries sub-address address + k * D
\* (k from 0, in the arithmetic of the address space); every size is in (0, D], the sizes sum to len, the chunks
\* cover [address, address + len) without gap or overlap, and the slices
\* the sub-requests carry are, in order, the data.
C9_WriteFragments ==
  \A i \in Ops :
    (ops[i].kind = "write" /\ ops[i].st # "intake") =>
      LET o == ops[i]
          f == o.frags
          n == Len(f)
      IN /\ n * o.D >= o.len
         /\ (n - 1) * o.D < o.len \/ n = 0
         /\ \A k \in 1..n :
              /\ f[k].addr = (o.addr + (k - 1) * o.D) % AddrSpace
              /\ f[k].size > 0 /\ f[k].size <= o.D
              /\ k < n => f[k + 1].addr = (f[k].addr + f[k].size) % AddrSpace
              /\ k = n => (f[k].addr + f[k].size) % AddrSpace =
                            (o.addr + o.len) % AddrSpace
         /\ SumSizes(f) = o.len
         /\ Concat([k \in 1..n |-> FragData(o, k)]) = WriteData(o.len)

\* A write of MaxLen bytes that was split unevenly and succeeded.
C9_Witness ==
  \E i \in Ops :
    /\ ops[i].kind = "write" /\ ops[i].len = MaxLen /\ ops[i].out = RS_OK
    /\ Len(ops[i].frags) >= 2
    /\ ops[i].frags[Len(ops[i].frags)].size < ops[i].D

\* C10: when a bulk read has completed successfully, the caller's buffer
\* holds the fragments' response data in address order, whether or not
\* on_success was given.
C10_ReadBuffer ==
  \A i \in Ops :
    (ops[i].kind = "read" /\ ops[i].st = "done" /\ ops[i].out = RS_OK) =>
      ops[i].buf = Concat(ops[i].resp)

\* C11: a bulk read that was submitted after a bulk write of the same
\* address and length had completed successfully, and that completes
\* successfully itself, leaves the payload of the write in the caller's
\* buffer (no other write was made).
C11_RoundTrip ==
  \A w \in Ops, r \in Ops :
    (/\ \A i \in Ops : ops[i].kind = "write" => i = w
     /\ ops[w].kind = "write" /\ ops[r].kind = "read"
     /\ w \in ops[r].seen
     /\ ops[r].addr = ops[w].addr /\ ops[r].len = ops[w].len
     /\ ops[r].st = "done" /\ ops[r].out = RS_OK)
    => ops[r].buf = WriteData(ops[w].len)

\* C12: a response with a return code that is not OK retires its request
\* with RS_EBAD_RC and the request is not transmitted again; an operation
\* whose error is RS_EBAD_RC never has on_success called and has on_error
\* (when given) called once with a FatalReturnCodeError carrying the return
\* code of such a response.
FragsOf(i) == DOMAIN ops[i].fres

Held(i, k) == \E s \in DOMAIN slots : slots[s].op = i /\ slots[s].k = k

C12_BadRcState ==
  \A i \in Ops :
    /\ \A k \in FragsOf(i) :
         /\ ops[i].fres[k] = RS_EBAD_RC <=> ops[i].frc[k] \in lim.rcs
         /\ ops[i].fres[k] = RS_EBAD_RC => ~Held(i, k)
    /\ (ops[i].st = "done" /\ ops[i].out = RS_EBAD_RC) =>
         /\ ops[i].nS = 0
         /\ ops[i].nE = (IF ops[i].onE THEN 1 ELSE 0)
         /\ ops[i].onE =>
              /\ ops[i].exc = "FatalReturnCodeError"
              /\ \E k \in FragsOf(i) :
                   /\ ops[i].fres[k] = RS_EBAD_RC
                   /\ ops[i].exc_rc = ops[i].frc[k]

C12_BadRc ==
  /\ []C12_BadRcState
  /\ [][\A i \in Ops : \A k \in FragsOf(i) :
          (ops'[i].fres[k] = RS_EBAD_RC) =>
             ops'[i].sent[k] = ops[i].sent[k]]_vars

\* With retries available, a fragment was answered with the second bad
\* return code after a single transmission and on_error received it.
C12_Witness ==
  \E i \in Ops :
    /\ eng.tries = MaxParam
    /\ ops[i].st = "done" /\ ops[i].nE = 1 /\ ops[i].exc_rc = RC_BAD2
    /\ \E k \in FragsOf(i) : ops[i].fres[k] = RS_EBAD_RC /\ ops[i].sent[k] = 1

\* C13: a sub-request that is not answered is transmitted n_tries times in
\* all, always with the same sequence id, its retries only decrease, and it
\* is then retired once with RS_ETIMEOUT, its slot freed; the operation
\* reports a TimeoutError.
SlotHolds(s, i, k) == slots[s] # NoReq /\ slots[s].op = i /\ slots[s].k = k

C13_TimeoutState ==
  \A i \in Ops :
    /\ \A k \in FragsOf(i) :
         /\ ops[i].sent[k] <= ntries
         /\ Cardinality({p \in wire : p.op = i /\ p.k = k}) <= 1
         /\ \A s \in DOMAIN slots :
              SlotHolds(s, i, k) =>
                /\ slots[s].tries >= 0
                /\ ops[i].sent[k] + slots[s].tries = ntries
                /\ [seq |-> slots[s].seq, op |-> i, k |-> k] \in wire
         /\ ops[i].fres[k] = RS_ETIMEOUT =>
              ops[i].sent[k] = ntries /\ ~Held(i, k)
    /\ (ops[i].st = "done" /\ ops[i].out = RS_ETIMEOUT) =>
         /\ ops[i].nS = 0
         /\ ops[i].nE = (IF ops[i].onE THEN 1 ELSE 0)
         /\ ops[i].onE => ops[i].exc = "TimeoutError"

C13_Timeout ==
  /\ []C13_TimeoutState
  /\ [][/\ \A i \in Ops : \A k \in FragsOf(i) :
            ops[i].fres[k] # "none" =>
              /\ ops'[i].fres[k] = ops[i].fres[k]
              /\ ops'[i].sent[k] = ops[i].sent[k]
        /\ \A s \in DOMAIN slots : \A i \in Ops : \A k \in FragsOf(i) :
            (SlotHolds(s, i, k) /\ SlotHolds(s, i, k)') =>
               slots'[s].tries <= slots[s].tries]_vars

\* With n_tries = MaxParam a fragment was transmitted MaxParam times and
\* timed out, and on_error received the TimeoutError.
C13_Witness ==
  \E i \in Ops :
    /\ ntries = MaxParam
    /\ ops[i].st = "done" /\ ops[i].nE = 1 /\ ops[i].exc = "TimeoutError"
    /\ \E k \in FragsOf(i) :
         ops[i].fres[k] = RS_ETIMEOUT /\ ops[i].sent[k] = MaxParam

\* C14 (as a property of every state and of the final state): an operation
\* accepted after a setter call is executed on an engine created with the
\* values assigned last before it, and once the event loop has stopped it
\* has been executed.
C14_ReconfigKeepsQueued ==
  \A i \in Ops :
    ops[i].postset =>
      /\ ops[i].st # "intake" =>
           ops[i].D = ops[i].setD /\ ops[i].W = ops[i].setW
      /\ pc = "stopped" => ops[i].st # "intake"

\* C15: when the body of a scp_data_length or n_outstanding setter runs
\* while requests are in the window, each of them is retired with RS_EFREE
\* and its operation completes in that step with an error, on_error (when
\* given) being called once and on_success not; no operation is left inside
\* an engine that has been torn down.
SetterRuns ==
  /\ EntryRuns /\ conn # None
  /\ fn.t \in {"setD", "setW"}

C15_SetterFreesWindow ==
  /\ [](rs # "live" => \A i \in Ops : ops[i].st # "engine")
  /\ [][SetterRuns =>
          \A s \in DOMAIN slots : \A i \in Ops : \A k \in FragsOf(i) :
            SlotHolds(s, i, k) =>
              /\ ops'[i].fres[k] = RS_EFREE
              /\ ops'[i].st = "done"
              /\ ops'[i].out = (IF ops[i].first_error = RS_OK
                                THEN RS_EFREE ELSE ops[i].first_error)
              /\ ops'[i].nS = 0
              /\ ops'[i].nE = (IF ops[i].onE THEN 1 ELSE 0)
              /\ (ops[i].onE /\ ops[i].first_error = RS_OK) =>
                   ops'[i].exc = "SCPError"
              /\ ~Held(i, k)']_vars

\* The engine has been re-created after a setter ran while a fragment was
\* in the window; its operation was reported to on_error as freed.
C15_Witness ==
  /\ ~closed /\ rs = "live" /\ nfree = 0
  /\ \E i \in Ops :
       /\ ops[i].out = RS_EFREE /\ ops[i].nE = 1 /\ ops[i].exc = "SCPError"
       /\ \E k \in FragsOf(i) : ops[i].fres[k] = RS_EFREE /\ ops[i].sent[k] >= 1

\* C16: the libuv thread never holds self._lock while a queued call, a user
\* callback or a teardown of the engine runs.
C16_LockNeverHeld == inlock = {}

\* C17: queued calls are run by the libuv thread only, each at most once
\* and in the order in which they were appended to self._queue, whatever
\* the number of calling threads and of coalesced wakeups; the engine admits
\* requests from its queue into the window in the same order.
OpTask(i) == [t |-> "op", a |-> i]

Before(a, b) == a.op < b.op \/ (a.op = b.op /\ a.k < b.k)

C17_FifoState ==
  /\ \A m, n \in DOMAIN Pending :
       (m < n /\ Pending[m].t = "op" /\ Pending[n].t = "op") =>
         Pending[m].a < Pending[n].a
  /\ \A i \in Ops :
       Cardinality({m \in DOMAIN Pending : Pending[m] = OpTask(i)})
         = (IF ops[i].st = "intake" THEN 1 ELSE 0)
  /\ \A i, j \in Ops :
       (i < j /\ ops[j].st # "intake") => ops[i].st # "intake"
  /\ \A m, n \in DOMAIN rq : m < n => Before(rq[m], rq[n])
  /\ \A m \in DOMAIN rq :
       /\ ops[rq[m].op].st = "engine"
       /\ ops[rq[m].op].sent[rq[m].k] = 0
       /\ \A i \in Ops : \A k \in FragsOf(i) :
            ops[i].sent[k] >= 1 => Before([op |-> i, k |-> k], rq[m])
  /\ \A i \in Ops : \A k \in FragsOf(i) :
       (ops[i].st = "engine" /\ ops[i].sent[k] = 0) =>
         Cardinality({m \in DOMAIN rq : rq[m] = [op |-> i, k |-> k]}) = 1

C17_Fifo ==
  /\ []C17_FifoState
  /\ [][/\ queue' # queue =>
            \/ /\ Len(queue') = Len(queue) + 1
               /\ SubSeq(queue', 1, Len(queue)) = queue
            \/ EntryPopped
        /\ \A i \in Ops :
             /\ (ops[i].st = "intake" /\ ops'[i].st # "intake") =>
                  /\ EntryRuns
                  /\ fn = OpTask(i)
                  /\ queue' = queue
             /\ ops[i].st # "intake" =>
                  /\ ops'[i].st # "intake"
                  /\ ops'[i].frags = ops[i].frags]_vars

\* Two calls have been run in the order of their submission and the engine
\* holds both: a request of the earlier one is in the window, its next
\* request and those of the later one wait in the engine's queue.
C17_Witness ==
  \E i, j \in Ops :
    /\ i < j /\ ops[i].st = "engine" /\ ops[j].st = "engine"
    /\ \E k \in FragsOf(i) : Held(i, k)
    /\ \E m, n \in DOMAIN rq : m < n /\ rq[m].op = i /\ rq[n].op = j

\* C18: an operation that fails (bad return code, timeout or freed) and has
\* no on_error has no callback called at all; its handle, its slot and its
\* sequence id are released; the failure itself leaves the engine running;
\* and an operation submitted after it is not left behind: while the
\* connection is open it is either about to be run or held by a live engine
\* with each of its requests queued or in the window.
Occupied == {s \in DOMAIN slots : slots[s] # NoReq}

C18_SilentState ==
  /\ rs = "live" => Len(freeseq) + Cardinality(Occupied) = eng.W
  /\ \A i \in Unreported :
       /\ ops[i].nS = 0 /\ ops[i].nE = 0 /\ ops[i].exc = "none"
       /\ i \notin cb_handles
       /\ \A s \in DOMAIN slots : slots[s].op # i
       /\ \A m \in DOMAIN rq : rq[m].op # i
       /\ \A j \in Ops :
            i \in ops[j].after =>
              /\ (ops[j].st = "intake" /\ ~closed) =>
                   (wakeup \/ pc \in {"drain", "popped"} \/ rs = "freeing")
              /\ ops[j].st = "engine" =>
                   /\ rs = "live" /\ j \in cb_handles
                   /\ \A k \in FragsOf(j) :
                        ops[j].fres[k] = "none" =>
                          \/ Held(j, k)
                          \/ \E m \in DOMAIN rq : rq[m] = [op |-> j, k |-> k]

C18_Silent ==
  /\ []C18_SilentState
  /\ [][\A i \in Ops :
          (/\ ops[i].st = "engine" /\ ops'[i].st = "done"
           /\ ~ops[i].onE /\ ops'[i].out # RS_OK
           /\ nfree' = nfree) =>
            /\ ops'[i].out \in {RS_EBAD_RC, RS_ETIMEOUT}
            /\ rs' = "live" /\ rs = "live" /\ conn' = conn /\ eng' = eng
            /\ pc' = pc /\ closed' = closed /\ queue' = queue]_vars

\* A command without on_error was freed by a setter; a command submitted
\* after that failure has succeeded on the re-created engine.
C18_Witness ==
  \E i \in Unreported : \E j \in Ops :
    /\ ops[i].out = RS_EFREE /\ ops[i].onS
    /\ i \in ops[j].after
    /\ ops[j].st = "done" /\ ops[j].out = RS_OK /\ ops[j].nS = 1

\* C19: for send_scp, write and read alike, the exception handed to
\* on_error describes a request whose destination is the (x, y, p) the
\* operation was submitted with, and its class follows the cause: a bad
\* return code gives FatalReturnCodeError with that code, exhausted
\* attempts give TimeoutError, a teardown gives the generic SCPError.
C19_ErrorDescribesRequest ==
  \A i \in Ops :
    ops[i].nE >= 1 =>
      /\ ops[i].exc_dest =
           [dest_x |-> ops[i].x, dest_y |-> ops[i].y, dest_cpu |-> ops[i].p]
      /\ ops[i].out = RS_EBAD_RC =>
           /\ ops[i].exc = "FatalReturnCodeError"
           /\ ops[i].exc_rc \in lim.rcs
           /\ \E k \in FragsOf(i) :
                ops[i].fres[k] = RS_EBAD_RC /\ ops[i].frc[k] = ops[i].exc_rc
      /\ ops[i].out = RS_ETIMEOUT =>
           /\ ops[i].exc = "TimeoutError"
           /\ \E k \in FragsOf(i) :
                ops[i].fres[k] = RS_ETIMEOUT /\ ops[i].sent[k] = ntries
      /\ ops[i].out = RS_EFREE =>
           /\ ops[i].exc = "SCPError"
           /\ \E k \in FragsOf(i) : ops[i].fres[k] = RS_EFREE
      /\ ops[i].out \in {RS_EBAD_RC, RS_ETIMEOUT, RS_EFREE}

\* A bulk operation to chip (257, 2) core 3 failed on a bad return code and
\* its on_error was called with the description of that request.
C19_Witness ==
  \E i \in Ops :
    /\ ops[i].kind \in {"write", "read"} /\ ops[i].x = 257 /\ ops[i].p = 3
    /\ ops[i].nE = 1 /\ ops[i].exc = "FatalReturnCodeError"
    /\ ops[i].exc_dest.dest_x = 257

\* C20: the sequence ids of the occupied slots are pairwise distinct and
\* at most W in number, none of them is on the allocator's free list, and
\* an id is given to a new request only once the request that held it has
\* been retired.
LiveSeqs == {slots[s].seq : s \in Occupied}

C20_SeqState ==
  /\ DOMAIN slots = 1..eng.W
  /\ \A s, t \in Occupied : s # t => slots[s].seq # slots[t].seq
  /\ Cardinality(LiveSeqs) <= eng.W
  /\ LiveSeqs \subseteq 0..65535
  /\ \A m, n \in DOMAIN freeseq : m # n => freeseq[m] # freeseq[n]
  /\ \A m \in DOMAIN freeseq : freeseq[m] \notin LiveSeqs

C20_SeqUnique ==
  /\ []C20_SeqState
  /\ [][\A s \in DOMAIN slots' : \A t \in Occupied :
          \A i \in Ops : \A k \in FragsOf(i) :
            (/\ slots'[s] # NoReq
             /\ slots'[s].seq = slots[t].seq
             /\ SlotHolds(t, i, k)
             /\ ~(slots'[s].op = i /\ slots'[s].k = k)) =>
              /\ ops'[i].fres[k] # "none"
              /\ \A u \in DOMAIN slots' :
                   ~(slots'[u].op = i /\ slots'[u].k = k)]_vars

\* A window of two slots is full, with two different ids, after an earlier
\* request has been retired: one of the two ids is in its second use.
C20_Witness ==
  /\ eng.W = MaxParam /\ Occupied = DOMAIN slots
  /\ Cardinality(LiveSeqs) = MaxParam
  /\ \E i \in Ops : \E k \in FragsOf(i) :
       ops[i].fres[k] = RS_OK /\ ops[i].sent[k] >= 1

\* C21 as stated: the first error of an operation's fragments is recorded
\* and never replaced by a later one; a failing fragment does not cancel its
\* siblings; the user's completion runs once, when every fragment has
\* retired by itself, with that first error, or with success when no
\* fragment failed.
Unretired(o) == {k \in DOMAIN o.fres : o.fres[k] = "none"}

Cancelled(o) == {k \in DOMAIN o.fres : o.fres[k] = "cancelled"}

FailedFrags(o) ==
  {k \in DOMAIN o.fres : o.fres[k] \notin {"none", "cancelled", RS_OK}}

C21_FirstErrorState ==
  \A i \in Ops :
    /\ ops[i].st # "intake" =>
         /\ (ops[i].first_error = RS_OK) = (FailedFrags(ops[i]) = {})
         /\ \A k \in FailedFrags(ops[i]) :
              ops[i].fres[k] = ops[i].first_error
    /\ ops[i].st = "engine" =>
         /\ ops[i].first_error = RS_OK
         /\ Unretired(ops[i]) # {} /\ Cancelled(ops[i]) = {}
         /\ ops[i].remaining = Cardinality(Unretired(ops[i]))
         /\ ops[i].nS = 0 /\ ops[i].nE = 0 /\ ops[i].out = "none"
    /\ ops[i].st = "done" =>
         /\ Unretired(ops[i]) = {} /\ ops[i].remaining = 0
         /\ ops[i].out = ops[i].first_error
         /\ ops[i].nS = (IF ops[i].out = RS_OK /\ ops[i].onS THEN 1 ELSE 0)
         /\ ops[i].nE = (IF ops[i].out # RS_OK /\ ops[i].onE THEN 1 ELSE 0)
         /\ Cancelled(ops[i]) # {} =>
              /\ ops[i].out \in {RS_EBAD_RC, RS_ETIMEOUT}
              /\ Cardinality(FailedFrags(ops[i])) = 1
         /\ \A s \in DOMAIN slots : slots[s].op # i
         /\ \A m \in DOMAIN rq : rq[m].op # i

RECURSIVE SumSent(_, _)
SumSent(o, n) == IF n = 0 THEN 0 ELSE o.sent[n] + SumSent(o, n - 1)

Datagrams(o) == SumSent(o, Len(o.sent))

NeverAnswered ==
  \A j \in Ops : \A k \in DOMAIN ops[j].ans : ops[j].ans[k] = 0

TimedOutWrites ==
  {i \in Ops : /\ ops[i].kind = "write" /\ ops[i].st = "done"
               /\ ops[i].nE = 1 /\ ops[i].exc = "TimeoutError"}

C22_TimeoutState ==
  \A i \in TimedOutWrites :
    (Len(ops) = 1 /\ ntries = 1 /\ nfree = 0 /\ NeverAnswered) =>
      Datagrams(ops[i]) = Min(ops[i].W, Len(ops[i].frags))

C22_TimeoutStopsWrite ==
  /\ []C22_TimeoutState
  /\ [][\A i \in TimedOutWrites :
          /\ Datagrams(ops'[i]) = Datagrams(ops[i])
          /\ \A q \in wire' \ wire : q.op # i]_vars

\* test_n_outstanding, first half: through one slot the write of two
\* fragments has had its timeout reported after a single datagram, and the
\* engine is idle.
C22_Witness ==
  /\ Len(ops) = 1 /\ ntries = 1 /\ nfree = 0 /\ NeverAnswered
  /\ 1 \in TimedOutWrites
  /\ ops[1].W = 1 /\ Len(ops[1].frags) = 2
  /\ Datagrams(ops[1]) = 1 /\ ops[1].sent = <<1, 0>>
  /\ rs = "live" /\ Occupied = {} /\ rq = <<>>

\* C23: when the event loop is stopped for close() the intake queue is
\* empty: every call accepted before the closed flag was set has been taken
\* from the queue and run, also a call queued behind a setter whose
\* teardown was in progress when close() was called.
C23_QueueEmptyAtStop ==
  pc = "stopped" =>
    /\ queue = <<>>
    /\ \A i \in Ops : ops[i].st # "intake"

\* C24: _rs_free is never called while self._conn is None, so an engine is
\* torn down at most once and no teardown is asked for without an engine.
C24_FreeOnlyWithEngine == ~badfree

\* C25: while the engine is torn down (self._conn is None) and the
\* connection is open, a submission is still accepted into the intake queue,
\* but no queued call is run: calls are run only when a live engine exists.
TaskRuns == EntryPopped \/ EntryRuns

C25_TornDown ==
  /\ []((conn # None) = (rs = "live"))
  /\ [][/\ TaskRuns => conn # None /\ rs = "live"
        /\ \A i \in Ops :
             (ops[i].st = "intake" /\ ops'[i].st # "intake") =>
               conn # None /\ rs = "live" /\ TaskRuns
        /\ (conn = None /\ ~closed /\ ncalls' # ncalls) =>
             /\ ret' = "ok" /\ wakeup'
             /\ Len(queue') = Len(queue) + 1
             /\ SubSeq(queue', 1, Len(queue)) = queue
             /\ UNCHANGED <<conn, rs, rq, slots, wire>>]_vars

\* An operation was accepted while the engine was torn down for a setter
\* and has succeeded on the engine created afterwards.
C25_Witness ==
  \E i \in Ops :
    ops[i].atfree /\ ops[i].st = "done" /\ ops[i].out = RS_OK

\* C26: a response whose sequence id matches no occupied slot (such as a
\* late reply for a request retired by its timeout) is dropped: no callback
\* is called and the slots with their retry counters, the sequence
\* allocator, the request queue and the operations stay as they are.
SeqsOf(i, k) == {q.seq : q \in {r \in wire : r.op = i /\ r.k = k}}

NoSlotFor(i, k) == \A s \in Occupied : slots[s].seq \notin SeqsOf(i, k)

C26_UnmatchedDropped ==
  [][\A i \in Ops : \A k \in DOMAIN ops[i].ans :
       (ops'[i].ans[k] = ops[i].ans[k] + 1 /\ NoSlotFor(i, k)) =>
         /\ UNCHANGED <<slots, freeseq, rq, wire, cb_handles, rs, conn, pc>>
         /\ Callbacks' = Callbacks
         /\ ops' = [ops EXCEPT ![i].ans[k] = @ + 1]]_vars

\* The only request of a connection timed out and was reported; the
\* machine's answer to it came afterwards and was dropped.
C26_Witness ==
  /\ rs = "live" /\ Len(ops) = 1 /\ Occupied = {}
  /\ Len(ops[1].frags) = 1
  /\ ops[1].fres[1] = RS_ETIMEOUT /\ ops[1].ans[1] = 1
  /\ ops[1].st = "done" /\ ops[1].nE = 1 /\ ops[1].nS = 0

\* C28: the first response that matches the slot of a request, retransmitted
\* or not, completes the request, frees its slot with the timer and retires
\* the id; a further response to the same request completes nothing of it
\* again, and no timeout follows for it.
C28_FirstResponseState ==
  \A i \in Ops : \A k \in FragsOf(i) :
    ops[i].fres[k] # "none" => ~Held(i, k)

C28_FirstResponse ==
  /\ []C28_FirstResponseState
  /\ [][\A i \in Ops : \A k \in DOMAIN ops[i].ans :
          ops'[i].ans[k] = ops[i].ans[k] + 1 =>
            /\ (\E s \in Occupied :
                   SlotHolds(s, i, k) /\ slots[s].seq \in SeqsOf(i, k)) =>
                 /\ ops'[i].fres[k] \in {RS_OK, RS_EBAD_RC}
                 /\ \A s \in DOMAIN slots' :
                      ~(slots'[s].op = i /\ slots'[s].k = k)
            /\ ops[i].fres[k] # "none" =>
                 /\ ops'[i].fres[k] = ops[i].fres[k]
                 /\ ops'[i].frc[k] = ops[i].frc[k]
                 /\ ops'[i].resp[k] = ops[i].resp[k]
                 /\ ops[i].st = "done" =>
                      /\ ops'[i].nS = ops[i].nS /\ ops'[i].nE = ops[i].nE
                      /\ ops'[i].out = ops[i].out]_vars

\* A request was transmitted twice and completed by a response; the
\* machine's second answer has arrived as well and the operation still has
\* its one success.
C28_Witness ==
  \E i \in Ops : \E k \in FragsOf(i) :
    /\ ops[i].sent[k] = 2 /\ ops[i].ans[k] = 2
    /\ ops[i].fres[k] = RS_OK
    /\ ops[i].st = "done" /\ ops[i].out = RS_OK /\ ops[i].nS = 1
    /\ ops[i].nE = 0

\* C29: the length of the engine's request queue plus the number of
\* occupied slots equals the number of requests (commands and fragments)
\* created and neither completed nor cancelled.
PendingRequests ==
  UNION {{<<i, k>> : k \in Unretired(ops[i])} : i \in Ops}

RECURSIVE SumRemaining(_)
SumRemaining(n) ==
  IF n = 0 THEN 0 ELSE ops[n].remaining + SumRemaining(n - 1)

C29_RequestsAccounted ==
  /\ Len(rq) + Cardinality(Occupied) = Cardinality(PendingRequests)
  /\ Len(rq) + Cardinality(Occupied) = SumRemaining(Len(ops))
  /\ \A i \in Ops : \A k \in Unretired(ops[i]) :
       Held(i, k) # (\E m \in DOMAIN rq : rq[m] = [op |-> i, k |-> k])

\* A full window of two slots with a request waiting in the queue, after an
\* earlier request of the operation has been completed.
C29_Witness ==
  /\ Len(rq) >= 1 /\ Cardinality(Occupied) = MaxParam
  /\ \E i \in Ops : \E k \in FragsOf(i) :
       ops[i].st = "engine" /\ ops[i].fres[k] # "none"

\* C30: the window is work-conserving: in every state in which the engine
\* is not being freed, the request queue is empty or every slot is occupied.
C30_WorkConserving ==
  rs = "live" => (rq = <<>> \/ Occupied = DOMAIN slots)

\* Through a window of one slot the request of one operation has timed
\* out; the first request of the next operation has taken the slot and its
\* second request waits.
C30_Witness ==
  /\ rs = "live" /\ eng.W = 1 /\ rq # <<>>
  /\ \E i, j \in Ops :
       /\ i < j
       /\ ops[i].st = "done" /\ ops[i].out = RS_ETIMEOUT
       /\ ops[j].st = "engine" /\ Held(j, 1)
       /\ rq[1] = [op |-> j, k |-> 2]

\* C31: an engine is always one created with the values scp_data_length and
\* n_outstanding had at its creation and with the constructor's n_tries;
\* and unless close() is called, the connection eventually stays with a
\* live engine created with the values assigned last.
UpToDate ==
  /\ rs = "live"
  /\ eng.D = LastSet("setD", dlen)
  /\ eng.W = LastSet("setW", nout)
  /\ eng.tries = ntries

C31_SettersApplied ==
  /\ [](rs = "live" => eng = [D |-> dlen, W |-> nout, tries |-> ntries])
  /\ [][/\ ntries' = ntries
        /\ (rs # "live" /\ rs' = "live") =>
             /\ dlen' = dlen /\ nout' = nout
             /\ eng' = [D |-> dlen, W |-> nout, tries |-> ntries]]_vars
  /\ (<>closed) \/ <>[]UpToDate

\* Both properties were assigned values other than the constructor's, the
\* connection is open, and the live engine has both.
C31_Witness ==
  /\ ~closed /\ rs = "live" /\ queue = <<>> /\ pc = "idle"
  /\ lim.D = {1} /\ lim.W = {1}
  /\ eng.D = MaxParam /\ eng.W = MaxParam

\* C32: reading scp_data_length or n_outstanding gives the constructor's
\* value until a setter is called, and the assigned value once a setter
\* call has returned.
C32_GetterSeesSetter ==
  /\ get_scp_data_length = attr.D
  /\ get_n_outstanding = attr.W

----------------------------------------------------------------------------
\* C33: when a request cannot be submitted because an allocation failed, the
\* connection becomes closed, no request stays in flight, and the submitted
\* operation is not lost: it completes and its callback handle is dropped.
AllocFailed == {i \in Ops : ops[i].st = "raised"}

C33_AllocFailureFatal ==
  (AllocFailed # {}) ~>
     /\ closed
     /\ cb_handles = {}
     /\ \A i \in Ops : ops[i].st = "done"

----------------------------------------------------------------------------
\* The commands that succeeded and whose on_success was called.
ScpAnswered ==
  {i \in Ops : /\ ops[i].kind = "scp" /\ ops[i].st = "done"
               /\ ops[i].out = RS_OK /\ ops[i].nS = 1}

\* C34 as stated: the response handed to on_success of a send_scp with
\* expected_args = n has exactly its first n arguments set, to the reply's
\* values, the others None, and the reply's data.
C34_ExpectedArgsExact ==
  \A i \in ScpAnswered :
    /\ \A j \in 1..MaxArgs :
         ops[i].pkt.args[j] =
           IF j <= ops[i].expected_args THEN ReplyArgs[j] ELSE ArgNone
    /\ ops[i].pkt.data = ops[i].reply.data

\* C34: the response handed to on_success of a send_scp with expected_args
\* = n has the first min(n, r) arguments set to the values of the reply,
\* where r is the number of arguments the reply carries, the others None
\* (reply arguments beyond n are discarded); its data are the leading bytes
\* of the reply's data field, at most scp_data_length of them.
C34_ExpectedArgs ==
  \A i \in ScpAnswered :
    /\ \A j \in 1..MaxArgs :
         ops[i].pkt.args[j] =
           IF j <= Min(ops[i].expected_args, ops[i].reply.n)
           THEN ReplyArgs[j] ELSE ArgNone
    /\ Len(ops[i].pkt.data) = Min(Len(ops[i].reply.data), ops[i].D)
    /\ \A j \in 1..Len(ops[i].pkt.data) :
         ops[i].pkt.data[j] = ops[i].reply.data[j]

\* A command expecting one argument answered with three and with more data
\* than scp_data_length.
C34_Witness ==
  \E i \in ScpAnswered :
    /\ ops[i].expected_args = 1 /\ ops[i].reply.n = MaxArgs
    /\ Len(ops[i].reply.data) > ops[i].D
    /\ ops[i].pkt.args = <<ReplyArgs[1], ArgNone, ArgNone>>
    /\ ops[i].pkt.data = <<ops[i].reply.data[1]>>

----------------------------------------------------------------------------
\* The bulk operations of length 0 whose call has been run by the libuv
\* thread.
EmptyBulk ==
  {i \in Ops : /\ ops[i].kind \in {"write", "read"} /\ ops[i].len = 0
               /\ ops[i].st # "intake"}

\* C35: a write of empty data or a read of length 0 transmits no datagram
\* and completes exactly once, with success (as a property of every state:
\* once its call has been run, the operation has completed).
C35_EmptyBulk ==
  \A i \in EmptyBulk :
    /\ ops[i].st = "done" /\ ops[i].out = RS_OK
    /\ ops[i].frags = <<>> /\ Datagrams(ops[i]) = 0
    /\ \A q \in wire : q.op # i
    /\ \A r \in Range(rq) : r.op # i
    /\ ops[i].nS = (IF ops[i].onS THEN 1 ELSE 0)
    /\ ops[i].nE = 0
    /\ i \notin cb_handles

----------------------------------------------------------------------------
Reads == {i \in Ops : ops[i].kind = "read"}

\* C36: a read changes at most the first min(length, len(buffer)) bytes of
\* the caller's buffer: the buffer keeps its size, the bytes beyond length
\* keep their content, a shorter buffer receives the leading bytes of what
\* the engine has read, and a read that has not succeeded leaves the buffer
\* as it was.
C36_ReadFrame ==
  \A i \in Reads :
    /\ Len(ops[i].buf) = ops[i].buflen
    /\ \A j \in 1..Len(ops[i].buf) :
         j > Min(ops[i].len, ops[i].buflen) => ops[i].buf[j] = Fill
    /\ ops[i].nS = 1 =>
         \A j \in 1..Min(ops[i].len, ops[i].buflen) :
           ops[i].buf[j] = ops[i].dbuf[j]
    /\ (ops[i].st # "done" \/ ops[i].out # RS_OK) =>
         \A j \in 1..Len(ops[i].buf) : ops[i].buf[j] = Fill

\* A successful read into a buffer one byte longer than the length read.
C36_Witness ==
  \E i \in Reads :
    /\ ops[i].buflen > ops[i].len /\ ops[i].nS = 1
    /\ ops[i].buf[1] # Fill
    /\ ops[i].buf[ops[i].buflen] = Fill

----------------------------------------------------------------------------
\* The bulk operations the engine has split into sub-requests.
Bulk == {i \in Ops : ops[i].kind \in {"write", "read"} /\ ops[i].st # "intake"}

\* C37: the sub-address of the k-th fragment (k from 0) of a bulk operation
\* is (address + k * D) modulo the size of the address space, so it stays
\* inside the address space also when the range runs over its end; the
\* datagrams sent are those of these fragments.
C37_AddressWraps ==
  \A i \in Bulk :
    /\ \A k \in DOMAIN ops[i].frags :
         /\ ops[i].frags[k].addr =
              (ops[i].addr + (k - 1) * ops[i].D) % AddrSpace
         /\ ops[i].frags[k].addr \in 0..(AddrSpace - 1)
    /\ \A q \in wire : q.op = i => q.k \in DOMAIN ops[i].frags

\* A write over the end of the address space has succeeded: a fragment
\* went to address 0 and the machine's memory there holds its data.
C37_Witness ==
  \E i \in Bulk :
    /\ ops[i].kind = "write" /\ ops[i].addr + ops[i].len > AddrSpace
    /\ ops[i].st = "done" /\ ops[i].out = RS_OK
    /\ \E k \in DOMAIN ops[i].frags :
         /\ k > 1 /\ ops[i].frags[k].addr = 0
         /\ mem[0] = FragData(ops[i], k)[1]

----------------------------------------------------------------------------
\* An entry None at the head of the queue is removed by the queue loop
\* of _on_wakeup without any other effect and without ending the loop, which
\* ends only with the queue empty (or the engine being re-created); the
\* calls queued behind it stay queued, once each and in the order of their
\* submission, until the loop runs them.
C38_QueueState ==
  /\ \A m \in DOMAIN Pending :
       Pending[m].t = "op" =>
         /\ ops[Pending[m].a].st = "intake"
         /\ \A n \in DOMAIN Pending : Pending[n] = Pending[m] => n = m
  /\ \A m, n \in DOMAIN Pending :
       (m < n /\ Pending[m].t = "op" /\ Pending[n].t = "op") =>
         Pending[m].a < Pending[n].a

\* The queue loop pops a None entry, and then skips it.
NonePopped ==
  /\ pc = "drain" /\ queue # <<>> /\ Head(queue) = NoneTask
  /\ Len(queue') < Len(queue)

NoneStep ==
  /\ NonePopped =>
       /\ queue' = Tail(queue) /\ fn' = NoneTask
       /\ pc' = "popped"
       /\ ops' = ops /\ cb_handles' = cb_handles
       /\ engvars' = engvars /\ netvars' = netvars
       /\ conn' = conn /\ closed' = closed
  /\ (EntryRuns /\ fn = NoneTask) =>
       /\ queue' = queue
       /\ pc' = "drain"
       /\ ops' = ops /\ cb_handles' = cb_handles
       /\ engvars' = engvars /\ netvars' = netvars
       /\ conn' = conn /\ closed' = closed

LoopEnds ==
  (pc \in {"drain", "popped"} /\ pc' \notin {"drain", "popped"}) =>
    /\ pc = "drain" /\ pc' = "final"
    /\ queue = <<>> \/ conn = None

\* C38: None at the head of the queue is skipped and the loop goes on with
\* the calls behind it, each queued once and in order.
C38_NoneSkipped ==
  /\ []C38_QueueState
  /\ [][NoneStep /\ LoopEnds]_vars

\* A command submitted behind a None entry has been run and has succeeded.
C38_Witness ==
  \E i \in Ops :
    /\ ops[i].behind_none /\ NoneTask \notin Range(queue)
    /\ ops[i].st = "done" /\ ops[i].out = RS_OK /\ ops[i].nS = 1

====
